---- MODULE Spec2Model ----
(***************************************************************************)
(* Model of the real-time streaming client of the route tracker            *)
(* (mod/src/realtime_client.rs): one producer holding the RealtimeClient   *)
(* handle, the mpsc channel, and the background sender thread with its     *)
(* pending buffer and the retry loop of send_batch.                        *)
(*                                                                         *)
(* A route point is modelled by its enqueue index: the i-th point handed   *)
(* to send_points is the number i.                                         *)
(*                                                                         *)
(* The module also models the client's configuration predicate             *)
(* (ConfigSpec) and the coordinate transformer of                          *)
(* src/coordinate_transformer.rs (EngineSpec): the anchor graph, the       *)
(* breadth-first path precomputation and the transform query.  Each        *)
(* specification moves its own variables and leaves the others at their    *)
(* initial values.                                                         *)
(***************************************************************************)
EXTENDS Integers, Sequences, FiniteSets, TLC

\* ------------------------------------------------------------------ bounds
\* Total number of route points the producer hands over.
MaxPoints == 11
\* Number of send_points calls the producer makes.
MaxCalls == 2
\* Longest backend URL and push key, in characters.
MaxStrLen == 2
\* Number of alignment rows loaded into the anchor table.
MaxRows == 3
\* Last instant of the tracker's clock.
MaxTime == 3

\* ------------------------------------------------------- program constants
\* let batch_size = 10;
BatchSize == 10
\* Faulty variant: one retry too many.
MaxRetriesOffByOne == 3 + 1
\* let max_retries = 3;
MaxRetries == 3
\* Duration::from_millis(100 * (attempt + 1))
BackoffUnitMs == 100
\* if response.status() == 200
StatusOk == 200
\* if code == 401
StatusUnauthorized == 401
\* ureq reports a status >= 400 as Err(ureq::Error::Status), below as Ok(response)
FirstErrorStatus == 400
\* a transport failure (DNS, connection, timeout) carries no status
TransportError == 0
\* area_no == 60 (base game) and area_no == 61 (DLC): the two global maps
AreaM60 == 60
AreaM61 == 61
\* (grid_x as f32) * 256.0
TileSize == 256

\* Statuses the backend answers with in the model: success, another 2xx,
\* unauthorized, a server error.
Statuses == {StatusOk, 204, StatusUnauthorized, 500}
Responses == Statuses \cup {TransportError}

VARIABLES
    handle,      \* "live" | "dropped": the RealtimeClient value owned by the producer
    chan,        \* mpsc channel: messages sent and not yet received
    pc,          \* position of the sender thread
    pending,     \* pending_points
    batch,       \* send_batch: points
    ret,         \* where the sender thread goes on when send_batch returns
    attempt,     \* send_batch: loop index
    responses,   \* send_batch: outcome of each request of this call, in order
    sleeps,      \* send_batch: duration of each backoff sleep of this call
    outcome,     \* send_batch: "none" | "ok" | "unauthorized" | "failed"
    dispatched,  \* history: every call of send_batch, in order
    nenq,        \* history: number of points handed to the channel
    ncalls,      \* history: number of send_points calls
    backend_url, \* RealtimeClient.backend_url, a sequence of characters
    push_key,    \* RealtimeClient.push_key, a sequence of characters
    configured,  \* value returned by the last is_configured call, "none" before
    anchors,     \* WorldPositionTransformer.anchors: tile key -> list of anchors
    paths,       \* WorldPositionTransformer.paths_to_global: tile key -> path
    epc,         \* "loading" (the graph is being filled) | "ready" (engine built)
    query,       \* arguments of the last transform call
    result,      \* value returned by the last transform call
    table,       \* add_inverse_anchors: the anchors map it works on
    before,      \* history: that map before the last call
    passes,      \* history: number of add_inverse_anchors calls made
    mid,         \* a packed u32 map id
    bytes,       \* value returned by the last parse_map_id call
    line_num,    \* from_csv: index of the next line of the file
    row,         \* history: the line read last and what became of it
    answers,     \* history: queries answered so far, with their results
    anchors2,    \* anchors of a second engine built from the same records
    paths2,      \* paths_to_global of the second engine
    result2,     \* value the second engine returned for the last query
    realtime_client,    \* RouteTracker.realtime_client: "some" | "none"
    is_recording,       \* RouteTracker.is_recording
    is_streaming,       \* RouteTracker.is_streaming
    start_time,         \* RouteTracker.start_time: an instant or NoInstant
    stream_start_time,  \* RouteTracker.stream_start_time
    last_record_time,   \* RouteTracker.last_record_time
    last_stream_time,   \* RouteTracker.last_stream_time
    route,              \* RouteTracker.route
    streamed,           \* history: points handed to client.send_point
    now,                \* the monotonic clock, in units of record_interval
    exported,           \* convert_map_icons: the icons of the export read so far
    icons,              \* convert_map_icons: the icons put out so far
    converted_count,    \* convert_map_icons: converted_count
    failed_count,       \* convert_map_icons: failed_count
    failed_maps,        \* convert_map_icons: failed_maps
    bfs_start,          \* bfs_find_path_to_global: start
    bfs_queue,          \* bfs_find_path_to_global: queue
    bfs_visited,        \* bfs_find_path_to_global: visited
    bfs_pc,             \* bfs_find_path_to_global: "idle", "running", "some", "none"
    bfs_result          \* bfs_find_path_to_global: the path returned

sbVars == <<batch, ret, attempt, responses, sleeps, outcome>>
workerVars == <<pc, pending, batch, ret, attempt, responses, sleeps, outcome, dispatched>>
vars == <<handle, chan, pc, pending, batch, ret, attempt, responses, sleeps,
          outcome, dispatched, nenq, ncalls>>
configVars == <<backend_url, push_key, configured>>
engineVars == <<anchors, paths, epc, query, result>>
inverseVars == <<table, before, passes>>
mapIdVars == <<mid, bytes>>
csvVars == <<line_num, row>>
queryVars == <<answers>>
pairVars == <<anchors2, paths2, result2>>
trackerVars == <<realtime_client, is_recording, is_streaming, start_time,
                 stream_start_time, last_record_time, last_stream_time,
                 route, streamed, now>>
iconVars == <<exported, icons, converted_count, failed_count, failed_maps>>
searchVars == <<bfs_start, bfs_queue, bfs_visited, bfs_pc, bfs_result>>
\* The variables of the tools and helpers around the engine.
toolVars == <<inverseVars, mapIdVars, csvVars, queryVars, pairVars,
              trackerVars, iconVars, searchVars>>
\* What the streaming actions never touch.
nonStreamVars == <<configVars, engineVars, toolVars>>
\* What the actions of each of the other parts never touch.
nonSearchVars == <<vars, configVars, engineVars, mapIdVars, csvVars, queryVars,
                   pairVars, trackerVars, iconVars>>
nonInverseVars == <<vars, configVars, engineVars, mapIdVars, csvVars, queryVars,
                    pairVars, trackerVars, iconVars, searchVars>>
nonMapIdVars == <<vars, configVars, engineVars, inverseVars, csvVars, queryVars,
                  pairVars, trackerVars, iconVars, searchVars>>
nonCsvVars == <<vars, configVars, inverseVars, mapIdVars, queryVars, pairVars,
                trackerVars, iconVars, searchVars>>
nonQueryVars == <<vars, configVars, inverseVars, mapIdVars, csvVars, pairVars,
                  trackerVars, iconVars, searchVars>>
nonPairVars == <<vars, configVars, inverseVars, mapIdVars, csvVars, queryVars,
                 trackerVars, iconVars, searchVars>>
nonTrackerVars == <<vars, configVars, engineVars, inverseVars, mapIdVars, csvVars,
                    queryVars, pairVars, iconVars, searchVars>>
nonIconVars == <<vars, configVars, engineVars, inverseVars, mapIdVars, csvVars,
                 queryVars, pairVars, trackerVars, searchVars>>
allVars == <<vars, configVars, engineVars, toolVars>>

\* ---------------------------------------------------------------- messages
SendPointsMsg(points) == [type |-> "SendPoints", points |-> points]
ShutdownMsg == [type |-> "Shutdown", points |-> <<>>]
Empty == [type |-> "Empty", points |-> <<>>]
Disconnected == [type |-> "Disconnected", points |-> <<>>]

\* The receiver lives as long as the sender thread runs.
ReceiverAlive == pc /= "done"

\* Sender::send: appends to the queue; fails (Err) once the receiver is gone.
ChannelSend(msg) == IF ReceiverAlive THEN Append(chan, msg) ELSE chan

\* Receiver::try_recv: the oldest message; Empty while a sender lives,
\* Disconnected when all senders are gone and the queue is empty.
TryRecvResult ==
    IF chan /= <<>> THEN Head(chan)
    ELSE IF handle = "dropped" THEN Disconnected ELSE Empty

\* Points i+1 .. i+k, in order.
Range(i, k) == [j \in 1..k |-> i + j]

\* The streaming client right after RealtimeClient::new.
StreamInit ==
    /\ handle = "live"
    /\ chan = <<>>
    /\ pc = "try_recv"
    /\ pending = <<>>
    /\ batch = <<>>
    /\ ret = "none"
    /\ attempt = 0
    /\ responses = <<>>
    /\ sleeps = <<>>
    /\ outcome = "none"
    /\ dispatched = <<>>
    /\ nenq = 0
    /\ ncalls = 0

\* A configured client, its predicate not yet called.
ConfigIdle ==
    /\ backend_url = <<"h">>
    /\ push_key = <<"k">>
    /\ configured = "none"

\* No transformer built yet: an empty anchor table, nothing asked.
EngineIdle ==
    /\ anchors = <<>>
    /\ paths = <<>>
    /\ epc = "loading"
    /\ query = <<>>
    /\ result = <<>>

\* No instant: Option<Instant>::None.
NoInstant == 0 - 1

\* add_inverse_anchors not called yet, on an empty map.
InverseIdle ==
    /\ table = <<>>
    /\ before = <<>>
    /\ passes = 0

\* No map id parsed yet.
MapIdIdle ==
    /\ mid = 0
    /\ bytes = <<>>

\* from_csv before the first line of the file.
CsvIdle ==
    /\ line_num = 0
    /\ row = <<>>

\* No call of transform made yet.
QueryIdle == answers = <<>>

\* No second engine.
PairIdle ==
    /\ anchors2 = <<>>
    /\ paths2 = <<>>
    /\ result2 = <<>>

\* RouteTracker::new, without a streaming client.
TrackerIdle ==
    /\ realtime_client = "none"
    /\ is_recording = FALSE
    /\ is_streaming = FALSE
    /\ start_time = NoInstant
    /\ stream_start_time = NoInstant
    /\ last_record_time = 0
    /\ last_stream_time = 0
    /\ route = <<>>
    /\ streamed = <<>>
    /\ now = 0

\* convert_map_icons before the first icon.
IconIdle ==
    /\ exported = <<>>
    /\ icons = <<>>
    /\ converted_count = 0
    /\ failed_count = 0
    /\ failed_maps = <<>>

\* No search started.
SearchIdle ==
    /\ bfs_start = <<0, 0, 0>>
    /\ bfs_queue = <<>>
    /\ bfs_visited = {}
    /\ bfs_pc = "idle"
    /\ bfs_result = <<>>

ToolIdle ==
    /\ SearchIdle
    /\ InverseIdle
    /\ MapIdIdle
    /\ CsvIdle
    /\ QueryIdle
    /\ PairIdle
    /\ TrackerIdle
    /\ IconIdle

Init == StreamInit /\ ConfigIdle /\ EngineIdle /\ ToolIdle

\* ---------------------------------------------------------------- producer
\* Faulty variant: a rendezvous hand-off, possible only while the sender
\* thread sits in its blocking receive.
SendPointsRendezvous(k) ==
    /\ UNCHANGED nonStreamVars
    /\ handle = "live"
    /\ pc = "recv_timeout"
    /\ ncalls < MaxCalls
    /\ nenq + k <= MaxPoints
    /\ ncalls' = ncalls + 1
    /\ IF k = 0
       THEN UNCHANGED <<chan, nenq>>
       ELSE /\ chan' = ChannelSend(SendPointsMsg(Range(nenq, k)))
            /\ nenq' = IF ReceiverAlive THEN nenq + k ELSE nenq
    /\ UNCHANGED <<handle, workerVars>>

\* Faulty variant: an empty slice is sent like any other.
SendPointsUnguarded(k) ==
    /\ UNCHANGED nonStreamVars
    /\ handle = "live"
    /\ ncalls < MaxCalls
    /\ nenq + k <= MaxPoints
    /\ ncalls' = ncalls + 1
    /\ chan' = ChannelSend(SendPointsMsg(Range(nenq, k)))
    /\ nenq' = IF ReceiverAlive THEN nenq + k ELSE nenq
    /\ UNCHANGED <<handle, workerVars>>

\* send_points(&points) with k points; send_point is the case k = 1.
SendPoints(k) ==
    /\ UNCHANGED nonStreamVars
    /\ handle = "live"
    /\ ncalls < MaxCalls
    /\ nenq + k <= MaxPoints
    /\ ncalls' = ncalls + 1
    /\ IF k = 0
       THEN UNCHANGED <<chan, nenq>>
       ELSE /\ chan' = ChannelSend(SendPointsMsg(Range(nenq, k)))
            /\ nenq' = IF ReceiverAlive THEN nenq + k ELSE nenq
    /\ UNCHANGED <<handle, workerVars>>

\* Drop for RealtimeClient: send Shutdown, then the Sender field is dropped.
DropClient ==
    /\ UNCHANGED nonStreamVars
    /\ handle = "live"
    /\ handle' = "dropped"
    /\ chan' = ChannelSend(ShutdownMsg)
    /\ UNCHANGED <<workerVars, nenq, ncalls>>

\* ------------------------------------------------------------ sender thread
\* Call of send_batch(points): the loop starts at attempt 0.
StartBatch(points, via, r) ==
    /\ batch' = points
    /\ ret' = r
    /\ attempt' = 0
    /\ responses' = <<>>
    /\ sleeps' = <<>>
    /\ outcome' = "none"
    /\ pc' = "request"
    /\ dispatched' = Append(dispatched, [points |-> points, via |-> via])

\* Faulty variant: break on Shutdown without the flush.
FlushAndExitNoFlush ==
    pc' = "done" /\ UNCHANGED <<pending, sbVars, dispatched>>

\* Faulty variant: the flush is followed by another turn of the loop.
FlushAndExitContinue ==
    IF pending /= <<>>
    THEN StartBatch(pending, "shutdown", "try_recv") /\ UNCHANGED pending
    ELSE pc' = "try_recv" /\ UNCHANGED <<pending, sbVars, dispatched>>

\* Ok(Shutdown): flush what is pending, then break.
FlushAndExit ==
    IF pending /= <<>>
    THEN StartBatch(pending, "shutdown", "done") /\ UNCHANGED pending
    ELSE pc' = "done" /\ UNCHANGED <<pending, sbVars, dispatched>>

\* Top of the loop: receiver.try_recv().
TryRecv ==
    /\ UNCHANGED nonStreamVars
    /\ pc = "try_recv"
    /\ LET m == TryRecvResult IN
       CASE m.type = "SendPoints" ->
              /\ chan' = Tail(chan)
              /\ pending' = pending \o m.points
              /\ pc' = "batch_loop"
              /\ UNCHANGED <<sbVars, dispatched>>
         [] m.type = "Shutdown" ->
              /\ chan' = Tail(chan)
              /\ FlushAndExit
         [] m.type = "Empty" ->
              /\ pc' = "batch_loop"
              /\ UNCHANGED <<chan, pending, sbVars, dispatched>>
         [] m.type = "Disconnected" ->
              /\ pc' = "done"
              /\ UNCHANGED <<chan, pending, sbVars, dispatched>>
    /\ UNCHANGED <<handle, nenq, ncalls>>

\* Faulty variant: the batch is taken from the back of the buffer.
DrainBack(s, n) == SubSeq(s, Len(s) - n + 1, Len(s))

\* Faulty variant: the batch is copied and the buffer keeps it.
DrainRestKept(s, n) == s

\* pending_points.drain(..batch_size): the batch taken and what stays.
DrainFront(s, n) == SubSeq(s, 1, n)
DrainRest(s, n) == SubSeq(s, n + 1, Len(s))

\* Faulty variant: a batch is cut only when more than batch_size points wait.
BatchLoopStrict ==
    /\ UNCHANGED nonStreamVars
    /\ pc = "batch_loop"
    /\ IF Len(pending) > BatchSize
       THEN /\ StartBatch(DrainFront(pending, BatchSize), "full", "batch_loop")
            /\ pending' = DrainRest(pending, BatchSize)
       ELSE /\ pc' = IF pending /= <<>> THEN "sleep" ELSE "recv_timeout"
            /\ UNCHANGED <<pending, sbVars, dispatched>>
    /\ UNCHANGED <<handle, chan, nenq, ncalls>>

\* while pending_points.len() >= batch_size { drain; send_batch }, then the
\* branch on !pending_points.is_empty().
BatchLoop ==
    /\ UNCHANGED nonStreamVars
    /\ pc = "batch_loop"
    /\ IF Len(pending) >= BatchSize
       THEN /\ StartBatch(DrainFront(pending, BatchSize), "full", "batch_loop")
            /\ pending' = DrainRest(pending, BatchSize)
       ELSE /\ pc' = IF pending /= <<>> THEN "sleep" ELSE "recv_timeout"
            /\ UNCHANGED <<pending, sbVars, dispatched>>
    /\ UNCHANGED <<handle, chan, nenq, ncalls>>

\* thread::sleep(50 ms) ends.
Sleep50 ==
    /\ UNCHANGED nonStreamVars
    /\ pc = "sleep"
    /\ pc' = "wait_recv"
    /\ UNCHANGED <<handle, chan, pending, sbVars, dispatched, nenq, ncalls>>

\* Faulty variant: the buffer is sent by reference and never drained.
TimeoutFlushNoDrain ==
    /\ StartBatch(pending, "timeout", "try_recv")
    /\ UNCHANGED pending

\* Faulty variant: on timeout the loop just goes round again.
TimeoutFlushSkipped ==
    /\ pc' = "try_recv"
    /\ UNCHANGED <<pending, sbVars, dispatched>>

\* Timeout reached: drain(..) everything and send it.
TimeoutFlush ==
    /\ StartBatch(pending, "timeout", "try_recv")
    /\ pending' = <<>>

\* receiver.try_recv() after the wait.
WaitRecv ==
    /\ UNCHANGED nonStreamVars
    /\ pc = "wait_recv"
    /\ LET m == TryRecvResult IN
       CASE m.type = "SendPoints" ->
              /\ chan' = Tail(chan)
              /\ pending' = pending \o m.points
              /\ pc' = "try_recv"
              /\ UNCHANGED <<sbVars, dispatched>>
         [] m.type = "Shutdown" ->
              /\ chan' = Tail(chan)
              /\ FlushAndExit
         [] m.type = "Empty" ->
              /\ TimeoutFlush
              /\ UNCHANGED chan
         [] m.type = "Disconnected" ->
              /\ pc' = "done"
              /\ UNCHANGED <<chan, pending, sbVars, dispatched>>
    /\ UNCHANGED <<handle, nenq, ncalls>>

\* receiver.recv_timeout(1 s) with nothing pending.
RecvTimeout ==
    /\ UNCHANGED nonStreamVars
    /\ pc = "recv_timeout"
    /\ LET m == TryRecvResult IN
       CASE m.type = "SendPoints" ->
              /\ chan' = Tail(chan)
              /\ pending' = m.points
              /\ pc' = "try_recv"
         [] m.type = "Shutdown" ->
              /\ chan' = Tail(chan)
              /\ pc' = "done"
              /\ UNCHANGED pending
         [] m.type = "Empty" ->
              /\ pc' = "try_recv"
              /\ UNCHANGED <<chan, pending>>
         [] m.type = "Disconnected" ->
              /\ pc' = "done"
              /\ UNCHANGED <<chan, pending>>
    /\ UNCHANGED <<handle, sbVars, dispatched, nenq, ncalls>>

\* ---------------------------------------------------------------- send_batch
\* Faulty variant: every 2xx status counts as success.
IsSuccessAny2xx(r) == r \in 200..299

\* Ok(response) with status 200.
IsSuccess(r) == r = StatusOk

\* Faulty variant: 401 is retried like any other error status.
IsAuthErrorNever(r) == FALSE

\* Err(ureq::Error::Status(code, _)) with code 401.
IsAuthError(r) == r >= FirstErrorStatus /\ r = StatusUnauthorized

\* Faulty variant: a constant backoff.
BackoffMsConstant(a) == BackoffUnitMs

\* 100 * (attempt + 1) ms.
BackoffMs(a) == BackoffUnitMs * (a + 1)

\* One iteration of `for attempt in 0..max_retries`: the request and the
\* match on its result, up to the start of the backoff sleep or the end of
\* the function.
HttpRequest(r) ==
    /\ UNCHANGED nonStreamVars
    /\ pc = "request"
    /\ responses' = Append(responses, r)
    /\ IF IsSuccess(r)
       THEN /\ outcome' = "ok"
            /\ pc' = "returned"
            /\ UNCHANGED <<attempt, sleeps>>
       ELSE IF IsAuthError(r)
       THEN /\ outcome' = "unauthorized"
            /\ pc' = "returned"
            /\ UNCHANGED <<attempt, sleeps>>
       ELSE IF attempt < MaxRetries - 1
       THEN /\ sleeps' = Append(sleeps, BackoffMs(attempt))
            /\ pc' = "backoff"
            /\ UNCHANGED <<attempt, outcome>>
       ELSE /\ attempt' = attempt + 1
            /\ outcome' = "failed"
            /\ pc' = "returned"
            /\ UNCHANGED sleeps
    /\ UNCHANGED <<handle, chan, pending, batch, ret, dispatched, nenq, ncalls>>

\* The backoff sleep ends; the loop goes to its next iteration.
Backoff ==
    /\ UNCHANGED nonStreamVars
    /\ pc = "backoff"
    /\ attempt' = attempt + 1
    /\ pc' = "request"
    /\ UNCHANGED <<handle, chan, pending, batch, ret, responses, sleeps,
                   outcome, dispatched, nenq, ncalls>>

\* Faulty variant: the thread gives up once a batch was refused with 401.
SendBatchReturnStopOnAuth ==
    /\ UNCHANGED nonStreamVars
    /\ pc = "returned"
    /\ pc' = IF outcome = "unauthorized" THEN "done" ELSE ret
    /\ batch' = <<>>
    /\ ret' = "none"
    /\ attempt' = 0
    /\ responses' = <<>>
    /\ sleeps' = <<>>
    /\ outcome' = "none"
    /\ UNCHANGED <<handle, chan, pending, dispatched, nenq, ncalls>>

\* send_batch returns (); its locals go out of scope.
SendBatchReturn ==
    /\ UNCHANGED nonStreamVars
    /\ pc = "returned"
    /\ pc' = ret
    /\ batch' = <<>>
    /\ ret' = "none"
    /\ attempt' = 0
    /\ responses' = <<>>
    /\ sleeps' = <<>>
    /\ outcome' = "none"
    /\ UNCHANGED <<handle, chan, pending, dispatched, nenq, ncalls>>

WorkerNext ==
    \/ TryRecv
    \/ BatchLoop
    \/ Sleep50
    \/ WaitRecv
    \/ RecvTimeout
    \/ \E r \in Responses : HttpRequest(r)
    \/ Backoff
    \/ SendBatchReturn

ProducerNext ==
    \/ \E k \in 0..MaxPoints : SendPoints(k)
    \/ DropClient

Next == ProducerNext \/ WorkerNext

Spec == Init /\ [][Next]_vars

\* The sender thread is scheduled and every request returns (5 s timeout).
FairSpec == Spec /\ WF_vars(WorkerNext)

\* -------------------------------------------------- one large message
\* send_points(&points) with a slice of two batches' worth of points, or
\* one point more, the only call the producer makes.
SendBurst(k) ==
    /\ UNCHANGED nonStreamVars
    /\ handle = "live"
    /\ ncalls < 1
    /\ ncalls' = ncalls + 1
    /\ chan' = ChannelSend(SendPointsMsg(Range(nenq, k)))
    /\ nenq' = IF ReceiverAlive THEN nenq + k ELSE nenq
    /\ UNCHANGED <<handle, workerVars>>

BurstNext ==
    \/ \E k \in {2 * BatchSize, 2 * BatchSize + 1} : SendBurst(k)
    \/ DropClient
    \/ WorkerNext

BurstSpec == Init /\ [][BurstNext]_vars

\* ============================================================ is_configured
\* Characters of a backend URL or push key in the model.
Chars == {"h", "/", "k"}
StringsUpTo(n) == UNION {[1..m -> Chars] : m \in 0..n}

\* RealtimeClient::new(backend_url, push_key) with any two strings.
ConfigInit ==
    /\ StreamInit
    /\ EngineIdle
    /\ ToolIdle
    /\ backend_url \in StringsUpTo(MaxStrLen)
    /\ push_key \in StringsUpTo(MaxStrLen)
    /\ configured = "none"

\* String::is_empty
IsEmpty(str) == Len(str) = 0

\* Faulty variant: one of the two is enough.
IsConfiguredEither == ~IsEmpty(push_key) \/ ~IsEmpty(backend_url)

\* !self.push_key.is_empty() && !self.backend_url.is_empty()
IsConfigured == ~IsEmpty(push_key) /\ ~IsEmpty(backend_url)

\* A call of is_configured(&self).
IsConfiguredCall ==
    /\ configured' = IF IsConfigured THEN "true" ELSE "false"
    /\ UNCHANGED <<backend_url, push_key, vars, engineVars, toolVars>>

ConfigNext == IsConfiguredCall

ConfigSpec == ConfigInit /\ [][ConfigNext]_allVars

\* ==================================================== coordinate transformer
\* Coordinates are integers: every f32 operation of the code is exact on
\* integers below 2^24, which all values of the model are.

\* Tile keys (area_no, grid_x, grid_z) of the model: two local tiles, one
\* tile of each global map, and a local tile no row ever mentions.
LocalTiles == {<<10, 0, 0>>, <<10, 1, 0>>}
GlobalTiles == {<<AreaM60, 40, 35>>, <<AreaM61, 10, 15>>}
Tiles == LocalTiles \cup GlobalTiles
AbsentTile == <<99, 0, 0>>

\* Source tiles of the rows loaded; a list keyed at the other global tile
\* comes from the inverse anchors.
RowKeys == LocalTiles \cup {<<AreaM60, 40, 35>>}

\* Source and destination positions of the rows of the table: the n-th row
\* loaded carries the n-th pair (cyclically), so that the anchors of one
\* table differ in their positions.
PosPairs ==
    << [src |-> <<0, 0, 0>>, dst |-> <<10, 5, 10>>],
       [src |-> <<0, 0, 0>>, dst |-> <<100, 50, 100>>],
       [src |-> <<-514, 28, 200>>, dst |-> <<7, -4, 9>>] >>
RowPositions(n) == PosPairs[((n - 1) % Len(PosPairs)) + 1]

\* Local points asked about.
Points == { <<50, 20, 30>> }

\* Anchor { src_pos, dst_area_no, dst_grid_x, dst_grid_z, dst_pos }
MakeAnchor(src_pos, dst, dst_pos) ==
    [src_pos |-> src_pos, dst_area_no |-> dst[1], dst_grid_x |-> dst[2],
     dst_grid_z |-> dst[3], dst_pos |-> dst_pos]

\* Faulty variant: the two grid indices swapped.
DstTileSwapped(a) == <<a.dst_area_no, a.dst_grid_z, a.dst_grid_x>>

\* (anchor.dst_area_no, anchor.dst_grid_x, anchor.dst_grid_z)
DstTile(a) == <<a.dst_area_no, a.dst_grid_x, a.dst_grid_z>>

\* Faulty variant: only the base-game map counts as global.
IsGlobalAreaOnly60(area) == area = AreaM60

\* area_no == 60 || area_no == 61
IsGlobalArea(area) == area = AreaM60 \/ area = AreaM61

\* anchors.get(&key): the list, empty when the key is absent.
AnchorList(g, key) == IF key \in DOMAIN g THEN g[key] ELSE <<>>

\* anchors.entry(key).or_default().push(anchor)
PushAnchor(g, key, a) ==
    [k \in DOMAIN g \cup {key} |-> IF k = key THEN Append(AnchorList(g, key), a) ELSE g[k]]

RECURSIVE SumLens(_, _)
SumLens(g, keys) ==
    IF keys = {} THEN 0
    ELSE LET k == CHOOSE k \in keys : TRUE
         IN Len(g[k]) + SumLens(g, keys \ {k})

\* anchor_count
AnchorCount(g) == SumLens(g, DOMAIN g)

\* ------------------------------------------------------- parse / format
\* Faulty variant: the shifted values not masked with 0xFF.
ParseMapIdNoMask(map_id) ==
    << map_id \div 16777216, map_id \div 65536, map_id \div 256, map_id >>

\* parse_map_id: the four bytes of the packed id, most significant first.
ParseMapId(map_id) ==
    << (map_id \div 16777216) % 256, (map_id \div 65536) % 256,
       (map_id \div 256) % 256, map_id % 256 >>

\* The packed id of a tile, fourth byte dd.
PackMapId(tile, dd) == tile[1] * 16777216 + tile[2] * 65536 + tile[3] * 256 + dd

\* Faulty variant: no padding.
Pad2Unpadded(n) == ToString(n)

\* {:02}: decimal, zero-padded to two digits.
Pad2(n) == IF n < 10 THEN "0" \o ToString(n) ELSE ToString(n)

\* format_map_id: "mWW_XX_YY_DD"
FormatMapId(map_id) ==
    LET b == ParseMapId(map_id)
    IN "m" \o Pad2(b[1]) \o "_" \o Pad2(b[2]) \o "_" \o Pad2(b[3]) \o "_" \o Pad2(b[4])

\* ------------------------------------------------------------------ BFS
NoPath == [found |-> FALSE, steps |-> <<>>, final_global_tile |-> <<0, 0, 0>>]

RECURSIVE BfsLoop(_, _, _)
RECURSIVE BfsScan(_, _, _, _, _, _)

\* Faulty variant: the step is pushed onto the path of the tile being
\* expanded itself (no clone), so later anchors of the list inherit it.
BfsScanSharedPath(g, list, i, path, queue, visited) ==
    IF i > Len(list) THEN BfsLoop(g, queue, visited)
    ELSE LET anchor == list[i]
             next_tile == DstTile(anchor)
             new_path == Append(path, [anchor |-> anchor])
         IN IF IsGlobalArea(anchor.dst_area_no)
            THEN [found |-> TRUE, steps |-> new_path, final_global_tile |-> next_tile]
            ELSE IF next_tile \notin visited
                 THEN BfsScan(g, list, i + 1, new_path,
                              Append(queue, [tile |-> next_tile, path |-> new_path]),
                              visited \cup {next_tile})
                 ELSE BfsScan(g, list, i + 1, new_path, queue, visited)

\* Faulty variant: depth first, a new tile is searched as soon as it is found.
BfsScanDepthFirst(g, list, i, path, queue, visited) ==
    IF i > Len(list) THEN BfsLoop(g, queue, visited)
    ELSE LET anchor == list[i]
             next_tile == DstTile(anchor)
             new_path == Append(path, [anchor |-> anchor])
         IN IF IsGlobalArea(anchor.dst_area_no)
            THEN [found |-> TRUE, steps |-> new_path, final_global_tile |-> next_tile]
            ELSE IF next_tile \notin visited
                 THEN LET sub == BfsLoop(g, <<[tile |-> next_tile, path |-> new_path]>>,
                                         visited \cup {next_tile})
                      IN IF sub.found THEN sub
                         ELSE BfsScan(g, list, i + 1, path, queue,
                                      visited \cup {next_tile})
                 ELSE BfsScan(g, list, i + 1, path, queue, visited)

\* Faulty variant: a new tile is queued with the path of the tile being
\* expanded, without the step that leads to it.
BfsScanStalePath(g, list, i, path, queue, visited) ==
    IF i > Len(list) THEN BfsLoop(g, queue, visited)
    ELSE LET anchor == list[i]
             next_tile == DstTile(anchor)
             new_path == Append(path, [anchor |-> anchor])
         IN IF IsGlobalArea(anchor.dst_area_no)
            THEN [found |-> TRUE, steps |-> new_path, final_global_tile |-> next_tile]
            ELSE IF next_tile \notin visited
                 THEN BfsScan(g, list, i + 1, path,
                              Append(queue, [tile |-> next_tile, path |-> path]),
                              visited \cup {next_tile})
                 ELSE BfsScan(g, list, i + 1, path, queue, visited)

\* for anchor in anchor_list (from index i on), with the path of the tile
\* being expanded, then back to the while loop.
BfsScan(g, list, i, path, queue, visited) ==
    IF i > Len(list) THEN BfsLoop(g, queue, visited)
    ELSE LET anchor == list[i]
             next_tile == DstTile(anchor)
             new_path == Append(path, [anchor |-> anchor])
         IN IF IsGlobalArea(anchor.dst_area_no)
            THEN [found |-> TRUE, steps |-> new_path, final_global_tile |-> next_tile]
            ELSE IF next_tile \notin visited
                 THEN BfsScan(g, list, i + 1, path,
                              Append(queue, [tile |-> next_tile, path |-> new_path]),
                              visited \cup {next_tile})
                 ELSE BfsScan(g, list, i + 1, path, queue, visited)

\* while let Some((current_tile, path)) = queue.pop_front()
BfsLoop(g, queue, visited) ==
    IF queue = <<>> THEN NoPath
    ELSE LET cur == Head(queue)
         IN BfsScan(g, AnchorList(g, cur.tile), 1, cur.path, Tail(queue), visited)

\* bfs_find_path_to_global(start, anchors)
BfsFindPathToGlobal(start, g) ==
    BfsLoop(g, <<[tile |-> start, path |-> <<>>]>>, {start})

\* Faulty variant: only anchors into area 60 count as direct.
HasDirectGlobalOnly60(g, key) ==
    \E i \in 1..Len(AnchorList(g, key)) : AnchorList(g, key)[i].dst_area_no = AreaM60

\* list.iter().any(|a| a.dst_area_no == 60 || a.dst_area_no == 61)
HasDirectGlobal(g, key) ==
    \E i \in 1..Len(AnchorList(g, key)) : IsGlobalArea(AnchorList(g, key)[i].dst_area_no)

\* precompute_paths_to_global(anchors): one entry per key of the table that
\* is not a global tile, has no direct global anchor and for which the
\* search finds a path.
PrecomputePathsToGlobal(g) ==
    LET need == {k \in DOMAIN g : ~IsGlobalArea(k[1]) /\ ~HasDirectGlobal(g, k)}
        keys == {k \in need : BfsFindPathToGlobal(k, g).found}
    IN [k \in keys |-> BfsFindPathToGlobal(k, g)]

\* ------------------------------------------------------------ transform
\* Faulty variant: the last matching anchor instead of the first.
FindLast(list, area) ==
    IF \E i \in 1..Len(list) : list[i].dst_area_no = area
    THEN CHOOSE i \in 1..Len(list) :
            /\ list[i].dst_area_no = area
            /\ \A j \in (i + 1)..Len(list) : list[j].dst_area_no /= area
    ELSE 0

\* anchor_list.iter().find(|a| a.dst_area_no == area): its index, 0 for None.
FindFirst(list, area) ==
    IF \E i \in 1..Len(list) : list[i].dst_area_no = area
    THEN CHOOSE i \in 1..Len(list) :
            /\ list[i].dst_area_no = area
            /\ \A j \in 1..(i - 1) : list[j].dst_area_no /= area
    ELSE 0

\* Faulty variant: the offset applied the wrong way round.
TranslateReversed(p, a) ==
    << p[1] + a.src_pos[1] - a.dst_pos[1],
       p[2] + a.src_pos[2] - a.dst_pos[2],
       p[3] + a.src_pos[3] - a.dst_pos[3] >>

\* point - anchor.src_pos + anchor.dst_pos
Translate(p, a) ==
    << p[1] - a.src_pos[1] + a.dst_pos[1],
       p[2] - a.src_pos[2] + a.dst_pos[2],
       p[3] - a.src_pos[3] + a.dst_pos[3] >>

\* local + (grid_x * 256, 0, grid_z * 256)
GridFormula(p, grid_x, grid_z) ==
    << p[1] + grid_x * TileSize, p[2], p[3] + grid_z * TileSize >>

\* apply_anchor_and_convert_to_global
ApplyAnchorAndConvertToGlobal(p, a) ==
    GridFormula(Translate(p, a), a.dst_grid_x, a.dst_grid_z)

RECURSIVE ApplySteps(_, _)
\* for step in &path.steps { current = current - src + dst }
ApplySteps(p, steps) ==
    IF steps = <<>> THEN p
    ELSE ApplySteps(Translate(p, Head(steps).anchor), Tail(steps))

\* apply_path_to_global
ApplyPathToGlobal(p, path) ==
    GridFormula(ApplySteps(p, path.steps),
                path.final_global_tile[2], path.final_global_tile[3])

Ok(pos, area) == [ok |-> TRUE, pos |-> pos, area |-> area, err |-> ""]
UnknownMap(id) == [ok |-> FALSE, pos |-> <<0, 0, 0>>, area |-> 0, err |-> id]

\* Faulty variant: the first anchor into either global map, in list order.
DirectAnchorIndexAnyGlobal(list) ==
    IF \E i \in 1..Len(list) : IsGlobalArea(list[i].dst_area_no)
    THEN CHOOSE i \in 1..Len(list) :
            /\ IsGlobalArea(list[i].dst_area_no)
            /\ \A j \in 1..(i - 1) : ~IsGlobalArea(list[j].dst_area_no)
    ELSE 0

\* Case 2: the anchor used, an anchor into m60 first, then one into m61;
\* 0 when the list has neither.
DirectAnchorIndex(list) ==
    IF FindFirst(list, AreaM60) /= 0 THEN FindFirst(list, AreaM60)
    ELSE FindFirst(list, AreaM61)

\* Faulty variant: the path cache is never consulted.
LocalToWorldDirectOnly(g, c, map_id, p) ==
    LET b == ParseMapId(map_id)
        area_no == b[1]
        key == <<b[1], b[2], b[3]>>
        list == AnchorList(g, key)
        direct == DirectAnchorIndex(list)
    IN IF IsGlobalArea(area_no)
       THEN Ok(GridFormula(p, b[2], b[3]), area_no)
       ELSE IF direct /= 0
       THEN Ok(ApplyAnchorAndConvertToGlobal(p, list[direct]), list[direct].dst_area_no)
       ELSE UnknownMap(FormatMapId(map_id))

\* local_to_world_with_global_map(&self, map_id, x, y, z) on the table g and
\* the path cache c.
LocalToWorldWithGlobalMap(g, c, map_id, p) ==
    LET b == ParseMapId(map_id)
        area_no == b[1]
        key == <<b[1], b[2], b[3]>>
        list == AnchorList(g, key)
        direct == DirectAnchorIndex(list)
    IN IF IsGlobalArea(area_no)
       THEN Ok(GridFormula(p, b[2], b[3]), area_no)
       ELSE IF direct /= 0
       THEN Ok(ApplyAnchorAndConvertToGlobal(p, list[direct]), list[direct].dst_area_no)
       ELSE IF key \in DOMAIN c
       THEN Ok(ApplyPathToGlobal(p, c[key]), c[key].final_global_tile[1])
       ELSE UnknownMap(FormatMapId(map_id))

\* ------------------------------------------------------ inverse anchors
Abs(n) == IF n < 0 THEN 0 - n ELSE n

\* An f32 that is not a number (the loader parses "NaN" into one).
NotANumber == 0 - 1000000

\* Faulty variant: the comparison with EPSILON the wrong way round.
PositionsEqualInverted(a, b) ==
    \A i \in 1..3 : Abs(a[i] - b[i]) * 1000 > 1

\* positions_equal: every component closer than EPSILON = 0.001
\* (|d| < 1/1000, on the integer positions of the model); a comparison with
\* a difference that is not a number is false.
PositionsEqual(a, b) ==
    \A i \in 1..3 :
        /\ a[i] /= NotANumber
        /\ b[i] /= NotANumber
        /\ Abs(a[i] - b[i]) * 1000 < 1

\* The orders in which a HashMap may hand out a set of keys.
Orders(keys) ==
    {o \in [1..Cardinality(keys) -> keys] :
        \A i, j \in 1..Cardinality(keys) : o[i] = o[j] => i = j}

\* Faulty variant: the positions of the inverse not swapped.
InversesOfUnswapped(key, list) ==
    [i \in 1..Len(list) |->
        [key |-> DstTile(list[i]),
         anchor |-> MakeAnchor(list[i].src_pos, key, list[i].dst_pos)]]

\* The inverses of the anchors of one list, in list order.
InversesOf(key, list) ==
    [i \in 1..Len(list) |->
        [key |-> DstTile(list[i]),
         anchor |-> MakeAnchor(list[i].dst_pos, key, list[i].src_pos)]]

RECURSIVE CollectInverses(_, _)
\* First loop of add_inverse_anchors, visiting the keys in the given order.
CollectInverses(g, order) ==
    IF order = <<>> THEN <<>>
    ELSE InversesOf(Head(order), g[Head(order)]) \o CollectInverses(g, Tail(order))

\* Faulty variant: only the first anchor of the list is compared.
AlreadyExistsFirstOnly(list, inv) ==
    /\ list /= <<>>
    /\ DstTile(list[1]) = DstTile(inv)
    /\ PositionsEqual(list[1].src_pos, inv.src_pos)
    /\ PositionsEqual(list[1].dst_pos, inv.dst_pos)

\* existing_list.iter().any(same destination and positions)
AlreadyExists(list, inv) ==
    \E i \in 1..Len(list) :
        /\ DstTile(list[i]) = DstTile(inv)
        /\ PositionsEqual(list[i].src_pos, inv.src_pos)
        /\ PositionsEqual(list[i].dst_pos, inv.dst_pos)

RECURSIVE AddInverses(_, _)
\* Second loop of add_inverse_anchors.
AddInverses(g, todo) ==
    IF todo = <<>> THEN g
    ELSE LET key == Head(todo).key
             inv == Head(todo).anchor
         IN IF AlreadyExists(AnchorList(g, key), inv)
            THEN AddInverses(g, Tail(todo))
            ELSE AddInverses(PushAnchor(g, key, inv), Tail(todo))

\* add_inverse_anchors, the map iterated in the given key order.
AddInverseAnchors(g, order) == AddInverses(g, CollectInverses(g, order))

\* ------------------------------------------------------------- actions
\* from_csv: one well-formed row, pushed onto the list of its source tile.
LoadRow(key, dst) ==
    /\ epc = "loading"
    /\ AnchorCount(anchors) < MaxRows
    /\ LET pp == RowPositions(AnchorCount(anchors) + 1)
       IN anchors' = PushAnchor(anchors, key, MakeAnchor(pp.src, dst, pp.dst))
    /\ UNCHANGED <<paths, epc, query, result, vars, configVars, toolVars>>

\* from_csv after the last row: the inverse anchors are added (the map is
\* iterated in an order the HashMap chooses), the path cache is precomputed
\* and both are moved into the WorldPositionTransformer.
FromCsv ==
    /\ epc = "loading"
    /\ \E order \in Orders(DOMAIN anchors) :
           anchors' = AddInverseAnchors(anchors, order)
    /\ paths' = PrecomputePathsToGlobal(anchors')
    /\ epc' = "ready"
    /\ UNCHANGED <<query, result, vars, configVars, toolVars>>

\* The engine is built from a table as it stands (empty(), and the
\* transformers the module builds field by field): the path cache is
\* precomputed and both are moved into the WorldPositionTransformer.
BuildEngine ==
    /\ epc = "loading"
    /\ paths' = PrecomputePathsToGlobal(anchors)
    /\ epc' = "ready"
    /\ UNCHANGED <<anchors, query, result, vars, configVars, toolVars>>

\* Map ids asked about: every tile of the model and the absent tile.
QueryIds == {PackMapId(t, 0) : t \in Tiles \cup {AbsentTile}}

\* A call of local_to_world_with_global_map(map_id, x, y, z).
Transform(map_id, p) ==
    /\ epc = "ready"
    /\ query = <<>>
    /\ query' = [map_id |-> map_id, p |-> p]
    /\ result' = LocalToWorldWithGlobalMap(anchors, paths, map_id, p)
    /\ UNCHANGED <<anchors, paths, epc, vars, configVars, toolVars>>

\* The caller has taken the returned value; the engine can be asked again.
TransformReturn ==
    /\ epc = "ready"
    /\ query /= <<>>
    /\ query' = <<>>
    /\ result' = <<>>
    /\ UNCHANGED <<anchors, paths, epc, vars, configVars, toolVars>>

EngineNext ==
    \/ \E key \in RowKeys, dst \in Tiles : LoadRow(key, dst)
    \/ FromCsv
    \/ BuildEngine
    \/ \E map_id \in QueryIds, p \in Points : Transform(map_id, p)
    \/ TransformReturn

EngineInit == StreamInit /\ ConfigIdle /\ EngineIdle /\ ToolIdle

EngineSpec == EngineInit /\ [][EngineNext]_allVars

\* -------------------------------------------- add_inverse_anchors alone
\* Source and destination tiles of the anchors inserted: both directions
\* between two tiles, a self-loop, and a tile that is only a destination.
InverseEdges ==
    { << <<10, 0, 0>>, <<10, 1, 0>> >>, << <<10, 1, 0>>, <<10, 0, 0>> >>,
      << <<10, 0, 0>>, <<10, 0, 0>> >>, << <<10, 0, 0>>, <<AreaM60, 40, 35>> >> }

\* Positions of the anchors inserted: a pair and its swap, a pair that
\* differs from the first in one coordinate only, a pair with a coordinate
\* that is not a number.
InversePositions ==
    { [src |-> <<100, 0, 100>>, dst |-> <<200, 0, 200>>],
      [src |-> <<200, 0, 200>>, dst |-> <<100, 0, 100>>],
      [src |-> <<100, 1, 100>>, dst |-> <<200, 0, 200>>],
      [src |-> <<200, 0, 200>>, dst |-> <<NotANumber, 0, 100>>] }

\* anchors.insert / push before add_inverse_anchors is called.
InsertAnchor(edge, pp) ==
    /\ passes = 0
    /\ AnchorCount(table) < MaxRows
    /\ table' = PushAnchor(table, edge[1], MakeAnchor(pp.src, edge[2], pp.dst))
    /\ UNCHANGED <<before, passes, nonInverseVars>>

\* add_inverse_anchors(&mut anchors), a first and a second time.
AddInverseAnchorsCall ==
    /\ passes < 2
    /\ \E order \in Orders(DOMAIN table) :
           table' = AddInverseAnchors(table, order)
    /\ before' = table
    /\ passes' = passes + 1
    /\ UNCHANGED nonInverseVars

InverseNext ==
    \/ \E edge \in InverseEdges, pp \in InversePositions : InsertAnchor(edge, pp)
    \/ AddInverseAnchorsCall

InverseSpec == Init /\ [][InverseNext]_allVars

\* ------------------------------------------------------- map ids alone
\* Byte values the ids are made of: the ends of the range and the bytes of
\* 0x3C282300.
ByteSamples == {0, 35, 40, 60, 255}
\* Values of the top byte: the ids of the model stay below 2^31.
TopByteSamples == {0, 35, 60, 127}

\* A map id as the game hands it out: any four bytes.
ReadMapId(b) ==
    /\ mid' = b[1] * 16777216 + b[2] * 65536 + b[3] * 256 + b[4]
    /\ bytes' = <<>>
    /\ UNCHANGED nonMapIdVars

\* convert_icon: (area_no << 24) | (grid_x_no << 16) | (grid_z_no << 8) | 0
BuildMapId(area_no, grid_x_no, grid_z_no) ==
    /\ mid' = PackMapId(<<area_no, grid_x_no, grid_z_no>>, 0)
    /\ bytes' = <<>>
    /\ UNCHANGED nonMapIdVars

\* A call of parse_map_id(map_id).
ParseMapIdCall ==
    /\ bytes' = ParseMapId(mid)
    /\ UNCHANGED <<mid, nonMapIdVars>>

MapIdNext ==
    \/ \E b \in TopByteSamples \X ByteSamples \X ByteSamples \X ByteSamples : ReadMapId(b)
    \/ \E a \in TopByteSamples, x \in ByteSamples, z \in ByteSamples : BuildMapId(a, x, z)
    \/ ParseMapIdCall

MapIdSpec == Init /\ [][MapIdNext]_allVars

\* ------------------------------------------------- the lines of the CSV
\* The guard of from_csv on the number of fields: fields.len() < 18.
NeededFields == 18
\* The column indexes from_csv reads, in the order it reads them.
ReadColumns == <<5, 6, 7, 9, 10, 11, 12, 13, 14, 16, 17, 18>>
\* No field of the line fails to parse.
NoColumn == 0 - 1
\* Numbers of fields split(',') gives: one, and the lengths around the guard.
FieldCounts == {1, 17, 18, 19, 20}
\* The field that does not parse, if any: read columns and one never read.
BadColumns == {NoColumn, 5, 8, 17, 18}
\* The lines of the file: a blank line has one empty field; a field that
\* fails to parse is a field of the line.
CsvLines ==
    {[blank |-> FALSE, nfields |-> n, bad |-> b] :
        n \in FieldCounts, b \in BadColumns} \cup
    {[blank |-> TRUE, nfields |-> 1, bad |-> NoColumn]}
\* Source and destination tiles of the rows of the file.
CsvKeys == LocalTiles
CsvDsts == {<<10, 1, 0>>, <<AreaM60, 40, 35>>}

RECURSIVE ParseColumns(_, _, _)
\* fields[c].trim().parse() for the columns in turn: indexing past the end
\* of fields panics, a parse error continues with the next line.
ParseColumns(cols, nfields, bad) ==
    IF cols = <<>> THEN "pushed"
    ELSE IF Head(cols) >= nfields THEN "panic"
    ELSE IF Head(cols) = bad THEN "skipped"
    ELSE ParseColumns(Tail(cols), nfields, bad)

\* The body of the loop of from_csv for one line.
RowOutcome(n, line) ==
    IF n = 0 THEN "skipped"
    ELSE IF line.blank THEN "skipped"
    ELSE IF line.nfields < NeededFields THEN "skipped"
    ELSE ParseColumns(ReadColumns, line.nfields, line.bad)

\* One turn of the loop over reader.lines().enumerate().
ReadLine(line) ==
    /\ epc = "loading"
    /\ line_num < MaxRows + 2
    /\ line.bad < line.nfields
    /\ LET o == RowOutcome(line_num, line)
       IN /\ o = "pushed" => AnchorCount(anchors) < MaxRows
          /\ row' = [header |-> line_num = 0, blank |-> line.blank,
                     nfields |-> line.nfields, bad |-> line.bad, outcome |-> o]
          /\ IF o = "pushed"
             THEN \E key \in CsvKeys, dst \in CsvDsts :
                     LET pp == RowPositions(AnchorCount(anchors) + 1)
                     IN anchors' = PushAnchor(anchors, key,
                                              MakeAnchor(pp.src, dst, pp.dst))
             ELSE anchors' = anchors
          /\ epc' = IF o = "panic" THEN "panicked" ELSE epc
    /\ line_num' = line_num + 1
    /\ UNCHANGED <<paths, query, result, nonCsvVars>>

CsvNext ==
    \/ \E line \in CsvLines : ReadLine(line)
    \/ FromCsv

CsvSpec == Init /\ [][CsvNext]_allVars

\* ------------------------------------------ transform, call after call
\* Map ids the callers ask about: the local tiles, a global tile, no tile.
AskedIds == {PackMapId(t, 0) :
                t \in LocalTiles \cup {<<AreaM60, 40, 35>>, AbsentTile}}

\* Faulty variant: the call consumes the anchor it used.
TransformConsuming(map_id, p) ==
    /\ epc = "ready"
    /\ Len(answers) < MaxCalls + 1
    /\ query' = [map_id |-> map_id, p |-> p]
    /\ result' = LocalToWorldWithGlobalMap(anchors, paths, map_id, p)
    /\ answers' = Append(answers, [map_id |-> map_id, p |-> p, result |-> result'])
    /\ LET b == ParseMapId(map_id)
           tile == <<b[1], b[2], b[3]>>
       IN anchors' = IF tile \in DOMAIN anchors /\ anchors[tile] /= <<>>
                     THEN [anchors EXCEPT ![tile] = Tail(@)]
                     ELSE anchors
    /\ UNCHANGED <<paths, epc, nonQueryVars>>

\* A call of local_to_world_with_global_map(&self, map_id, x, y, z), the
\* caller keeping what it was given; calls follow one another freely.
TransformCall(map_id, p) ==
    /\ epc = "ready"
    /\ Len(answers) < MaxCalls + 1
    /\ query' = [map_id |-> map_id, p |-> p]
    /\ result' = LocalToWorldWithGlobalMap(anchors, paths, map_id, p)
    /\ answers' = Append(answers, [map_id |-> map_id, p |-> p, result |-> result'])
    /\ UNCHANGED <<anchors, paths, epc, nonQueryVars>>

QueryNext ==
    \/ \E key \in CsvKeys, dst \in CsvDsts : LoadRow(key, dst)
    \/ FromCsv
    \/ BuildEngine
    \/ \E map_id \in AskedIds, p \in Points : TransformCall(map_id, p)

QuerySpec == Init /\ [][QueryNext]_allVars

\* --------------------------------- two engines from the same records
\* Source tiles of the records, and their destinations: a local tile no
\* record starts from, and a tile of each global frame.
PairKeys == {<<10, 0, 0>>, <<10, 2, 0>>}
PairDsts == {<<10, 1, 0>>, <<AreaM60, 40, 35>>, <<AreaM61, 10, 15>>}
PairIds == {PackMapId(t, 0) : t \in PairKeys \cup {<<10, 1, 0>>}}

\* The same row of the file read by both loads.
PairLoadRow(key, dst) ==
    /\ epc = "loading"
    /\ AnchorCount(anchors) < MaxRows + 1
    /\ LET pp == RowPositions(AnchorCount(anchors) + 1)
       IN /\ anchors' = PushAnchor(anchors, key, MakeAnchor(pp.src, dst, pp.dst))
          /\ anchors2' = PushAnchor(anchors2, key, MakeAnchor(pp.src, dst, pp.dst))
    /\ UNCHANGED <<paths, paths2, epc, query, result, result2, nonPairVars>>

\* Both loads finish: each iterates its HashMap in an order of its own
\* while collecting the inverse anchors, then precomputes its paths.
PairFromCsv ==
    /\ epc = "loading"
    /\ \E o1 \in Orders(DOMAIN anchors), o2 \in Orders(DOMAIN anchors2) :
          /\ anchors' = AddInverseAnchors(anchors, o1)
          /\ anchors2' = AddInverseAnchors(anchors2, o2)
    /\ paths' = PrecomputePathsToGlobal(anchors')
    /\ paths2' = PrecomputePathsToGlobal(anchors2')
    /\ epc' = "ready"
    /\ UNCHANGED <<query, result, result2, nonPairVars>>

\* The same call of local_to_world_with_global_map on both engines.
PairTransform(map_id, p) ==
    /\ epc = "ready"
    /\ query' = [map_id |-> map_id, p |-> p]
    /\ result' = LocalToWorldWithGlobalMap(anchors, paths, map_id, p)
    /\ result2' = LocalToWorldWithGlobalMap(anchors2, paths2, map_id, p)
    /\ UNCHANGED <<anchors, paths, anchors2, paths2, epc, nonPairVars>>

PairNext ==
    \/ \E key \in PairKeys, dst \in PairDsts : PairLoadRow(key, dst)
    \/ PairFromCsv
    \/ \E map_id \in PairIds, p \in Points : PairTransform(map_id, p)

PairSpec == Init /\ [][PairNext]_allVars

\* ------------------------------------------------------------- tracker
\* record_interval, the unit of the clock.
RecordInterval == 1
\* The position read found no player.
NoRead == 0 - 1
\* Map ids the game reports: a tile the transformer resolves, one it does not.
TrackerIds == {PackMapId(<<10, 0, 0>>, 0), PackMapId(AbsentTile, 0)}
\* The player's local position.
PlayerPos == <<50, 20, 30>>
\* The transformer RouteTracker::new loads: one row, m10_00_00 -> m60_40_35.
TrackerAnchors ==
    AddInverseAnchors(
        PushAnchor(<<>>, <<10, 0, 0>>,
                   MakeAnchor(RowPositions(3).src, <<AreaM60, 40, 35>>,
                              RowPositions(3).dst)),
        <<<<10, 0, 0>>>>)
TrackerPaths == PrecomputePathsToGlobal(TrackerAnchors)

\* local_to_world_first: the position part of the result.
LocalToWorldFirst(g, cache, map_id, p) ==
    LET r == LocalToWorldWithGlobalMap(g, cache, map_id, p)
    IN [ok |-> r.ok, pos |-> r.pos]

\* Faulty variant: the position of the result taken whether it is Ok or Err.
UnwrapUnchecked(r, local) == r.pos
\* .unwrap_or((x, y, z))
UnwrapOr(r, local) == IF r.ok THEN r.pos ELSE local

\* Faulty variant: the time since the previous streamed point.
StreamTimestampSinceLast(start, stream_start, last, t) == t - last
\* timestamp_ms of stream_position: elapsed since start_time if there is
\* one, else since stream_start_time, else 0.
StreamTimestamp(start, stream_start, last, t) ==
    IF start /= NoInstant THEN t - start
    ELSE IF stream_start /= NoInstant THEN t - stream_start
    ELSE 0

\* The instant a timestamp of stream_position is measured from.
StreamOrigin(start, stream_start, t) ==
    IF start /= NoInstant THEN start
    ELSE IF stream_start /= NoInstant THEN stream_start
    ELSE t

\* RoutePoint; origin is the instant timestamp_ms was measured from.
RoutePoint(map_id, local, ts, origin) ==
    [local |-> local,
     global |-> UnwrapOr(LocalToWorldFirst(TrackerAnchors, TrackerPaths, map_id, local),
                         local),
     map_id |-> map_id, timestamp_ms |-> ts, origin |-> origin]

\* The clock advances.
Tick ==
    /\ now < MaxTime
    /\ now' = now + 1
    /\ UNCHANGED <<realtime_client, is_recording, is_streaming, start_time,
                   stream_start_time, last_record_time, last_stream_time,
                   route, streamed, nonTrackerVars>>

StartRecording ==
    /\ route' = <<>>
    /\ start_time' = now
    /\ stream_start_time' = NoInstant
    /\ is_recording' = TRUE
    /\ UNCHANGED <<realtime_client, is_streaming, last_record_time,
                   last_stream_time, streamed, now, nonTrackerVars>>

StopRecording ==
    /\ is_recording' = FALSE
    /\ UNCHANGED <<realtime_client, is_streaming, start_time, stream_start_time,
                   last_record_time, last_stream_time, route, streamed, now,
                   nonTrackerVars>>

StartStreaming ==
    /\ stream_start_time' = now
    /\ is_streaming' = TRUE
    /\ UNCHANGED <<realtime_client, is_recording, start_time, last_record_time,
                   last_stream_time, route, streamed, now, nonTrackerVars>>

StopStreaming ==
    /\ is_streaming' = FALSE
    /\ UNCHANGED <<realtime_client, is_recording, start_time, stream_start_time,
                   last_record_time, last_stream_time, route, streamed, now,
                   nonTrackerVars>>

\* record_position with the position read giving read (a map id or nothing);
\* the early returns leave everything as it is.
RecordPosition(read) ==
    /\ is_recording
    /\ now - last_record_time >= RecordInterval
    /\ read /= NoRead
    /\ Len(route) < MaxCalls
    /\ LET ts == IF start_time /= NoInstant THEN now - start_time ELSE 0
       IN route' = Append(route, RoutePoint(read, PlayerPos, ts, start_time))
    /\ last_record_time' = now
    /\ UNCHANGED <<realtime_client, is_recording, is_streaming, start_time,
                   stream_start_time, last_stream_time, streamed, now,
                   nonTrackerVars>>

\* stream_position with the position read giving read.
StreamPosition(read) ==
    /\ is_streaming
    /\ realtime_client = "some"
    /\ now - last_stream_time >= RecordInterval
    /\ Len(streamed) < MaxCalls
    /\ stream_start_time' =
          IF stream_start_time = NoInstant /\ ~is_recording THEN now
          ELSE stream_start_time
    /\ IF read = NoRead
       THEN UNCHANGED <<streamed, last_stream_time>>
       ELSE /\ streamed' =
                  Append(streamed,
                         RoutePoint(read, PlayerPos,
                                    StreamTimestamp(start_time, stream_start_time',
                                                    last_stream_time, now),
                                    StreamOrigin(start_time, stream_start_time', now)))
            /\ last_stream_time' = now
    /\ UNCHANGED <<realtime_client, is_recording, is_streaming, start_time,
                   last_record_time, route, now, nonTrackerVars>>

TrackerNext ==
    \/ Tick
    \/ StartRecording
    \/ StopRecording
    \/ StartStreaming
    \/ StopStreaming
    \/ \E read \in TrackerIds \cup {NoRead} : RecordPosition(read)
    \/ \E read \in TrackerIds \cup {NoRead} : StreamPosition(read)

\* RouteTracker::new: the streaming client is there when the configuration
\* enables it with a push key, and both timers start at the current instant.
TrackerInit ==
    /\ StreamInit /\ ConfigIdle /\ EngineIdle
    /\ InverseIdle /\ MapIdIdle /\ CsvIdle /\ QueryIdle /\ PairIdle /\ IconIdle
    /\ SearchIdle
    /\ realtime_client \in {"none", "some"}
    /\ is_recording = FALSE
    /\ is_streaming = FALSE
    /\ start_time = NoInstant
    /\ stream_start_time = NoInstant
    /\ last_record_time = 0
    /\ last_stream_time = 0
    /\ route = <<>>
    /\ streamed = <<>>
    /\ now = 0

TrackerSpec == TrackerInit /\ [][TrackerNext]_allVars

\* --------------------------------------------------- convert_map_icons
\* Faulty variant: no icon id is excluded.
ExcludedIconIdsNone == {}
\* const EXCLUDED_ICON_IDS: &[u32] = &[83];
ExcludedIconIds == {83}
\* Icon ids of the export: one kept, one excluded.
IconIds == {1, 83}
\* Tiles the icons of the export lie on: both global frames, interiors with
\* area numbers around and inside 20..29, and a tile the table does not know.
IconTiles == {<<AreaM60, 40, 35>>, <<AreaM61, 10, 15>>, <<10, 0, 0>>,
              <<19, 0, 0>>, <<20, 0, 0>>, <<29, 0, 0>>, <<30, 0, 0>>, AbsentTile}
\* The rows of the table the tool loads: interiors of either kind anchored
\* in either frame.
IconRows ==
    << <<<<10, 0, 0>>, <<AreaM61, 10, 15>>>>, <<<<19, 0, 0>>, <<AreaM60, 40, 35>>>>,
       <<<<20, 0, 0>>, <<AreaM60, 40, 35>>>>, <<<<29, 0, 0>>, <<AreaM61, 10, 15>>>>,
       <<<<30, 0, 0>>, <<AreaM61, 10, 15>>>> >>
RECURSIVE PushRows(_, _)
PushRows(g, rows) ==
    IF rows = <<>> THEN g
    ELSE LET n == Len(rows)
             pp == RowPositions(n)
         IN PushAnchor(PushRows(g, SubSeq(rows, 1, n - 1)), rows[n][1],
                       MakeAnchor(pp.src, rows[n][2], pp.dst))
\* The transformer main loads with from_csv.
IconAnchors ==
    LET t == PushRows(<<>>, IconRows)
    IN AddInverseAnchors(t, CHOOSE o \in Orders(DOMAIN t) : TRUE)
IconPaths == PrecomputePathsToGlobal(IconAnchors)

\* Faulty variant: the interiors of areas 20..29 not told apart.
TargetMapNoInteriors(area_no) == IF area_no = AreaM61 THEN "m61" ELSE "m60"
\* target_map of convert_icon.
TargetMap(area_no) ==
    IF area_no = AreaM60 THEN "m60"
    ELSE IF area_no = AreaM61 THEN "m61"
    ELSE IF area_no >= 20 /\ area_no < 30 THEN "m61"
    ELSE "m60"

\* *failed_maps.entry(map_id_str).or_insert(0) += 1
CountFailed(m, map_id_str) ==
    [k \in DOMAIN m \cup {map_id_str} |->
        IF k = map_id_str THEN (IF k \in DOMAIN m THEN m[k] ELSE 0) + 1 ELSE m[k]]

\* convert_icon for one icon of the export; resolved is the frame
\* local_to_world_with_global_map named, which local_to_world_first drops.
ConvertIcon(icon_id, tile, p) ==
    /\ Len(exported) < MaxCalls + 1
    /\ exported' = Append(exported, [icon_id |-> icon_id, tile |-> tile, pos |-> p])
    /\ IF icon_id \in ExcludedIconIds
       THEN UNCHANGED <<icons, converted_count, failed_count, failed_maps>>
       ELSE LET map_id == PackMapId(tile, 0)
                map_id_str == FormatMapId(map_id)
                full == LocalToWorldWithGlobalMap(IconAnchors, IconPaths, map_id, p)
                r == LocalToWorldFirst(IconAnchors, IconPaths, map_id, p)
            IN IF r.ok
               THEN /\ converted_count' = converted_count + 1
                    /\ icons' = Append(icons,
                                       [icon_id |-> icon_id, area_no |-> tile[1],
                                        grid_x_no |-> tile[2], grid_z_no |-> tile[3],
                                        pos |-> p, global |-> r.pos,
                                        map_id |-> TargetMap(tile[1]),
                                        resolved |-> full.area])
                    /\ UNCHANGED <<failed_count, failed_maps>>
               ELSE /\ failed_count' = failed_count + 1
                    /\ failed_maps' = CountFailed(failed_maps, map_id_str)
                    /\ UNCHANGED <<icons, converted_count>>
    /\ UNCHANGED nonIconVars

IconNext == \E icon_id \in IconIds, tile \in IconTiles, p \in Points :
                ConvertIcon(icon_id, tile, p)

IconSpec == Init /\ [][IconNext]_allVars

\* ---------------------------------------------- the search, step by step
\* Edges of the graphs searched: a two-cycle, a self-loop, a three-cycle
\* and anchors into both global frames.
SearchTiles == {<<10, 0, 0>>, <<10, 1, 0>>, <<10, 2, 0>>}
SearchEdges ==
    { <<<<10, 0, 0>>, <<10, 1, 0>>>>, <<<<10, 1, 0>>, <<10, 0, 0>>>>,
      <<<<10, 0, 0>>, <<10, 0, 0>>>>, <<<<10, 1, 0>>, <<10, 2, 0>>>>,
      <<<<10, 2, 0>>, <<10, 0, 0>>>>, <<<<10, 2, 0>>, <<AreaM60, 40, 35>>>>,
      <<<<10, 1, 0>>, <<AreaM61, 10, 15>>>> }

RECURSIVE ScanAnchorsNoVisited(_, _, _, _, _)
\* Faulty variant: every neighbour is queued, visited or not.
ScanAnchorsNoVisited(list, i, path, queue, visited) ==
    IF i > Len(list) THEN [returned |-> NoPath, queue |-> queue, visited |-> visited]
    ELSE LET anchor == list[i]
             next_tile == DstTile(anchor)
             new_path == Append(path, [anchor |-> anchor])
         IN IF IsGlobalArea(anchor.dst_area_no)
            THEN [returned |-> [found |-> TRUE, steps |-> new_path,
                                final_global_tile |-> next_tile],
                  queue |-> queue, visited |-> visited]
            ELSE ScanAnchorsNoVisited(list, i + 1, path,
                                      Append(queue, [tile |-> next_tile, path |-> new_path]),
                                      visited)

RECURSIVE ScanAnchors(_, _, _, _, _)
\* for anchor in anchor_list (from index i on): the path returned, if any,
\* and the queue and the visited set the loop leaves.
ScanAnchors(list, i, path, queue, visited) ==
    IF i > Len(list) THEN [returned |-> NoPath, queue |-> queue, visited |-> visited]
    ELSE LET anchor == list[i]
             next_tile == DstTile(anchor)
             new_path == Append(path, [anchor |-> anchor])
         IN IF IsGlobalArea(anchor.dst_area_no)
            THEN [returned |-> [found |-> TRUE, steps |-> new_path,
                                final_global_tile |-> next_tile],
                  queue |-> queue, visited |-> visited]
            ELSE IF next_tile \notin visited
                 THEN ScanAnchors(list, i + 1, path,
                                  Append(queue, [tile |-> next_tile, path |-> new_path]),
                                  visited \cup {next_tile})
                 ELSE ScanAnchors(list, i + 1, path, queue, visited)

\* A row of the table the search will run on.
SearchInsert(edge) ==
    /\ bfs_pc = "idle"
    /\ AnchorCount(table) < MaxRows
    /\ LET pp == RowPositions(AnchorCount(table) + 1)
       IN table' = PushAnchor(table, edge[1], MakeAnchor(pp.src, edge[2], pp.dst))
    /\ UNCHANGED <<before, passes, searchVars, nonSearchVars>>

\* bfs_find_path_to_global(start, anchors) up to its while loop.
SearchStart(s) ==
    /\ bfs_pc = "idle"
    /\ bfs_start' = s
    /\ bfs_queue' = <<[tile |-> s, path |-> <<>>]>>
    /\ bfs_visited' = {s}
    /\ bfs_pc' = "running"
    /\ UNCHANGED <<bfs_result, inverseVars, nonSearchVars>>

\* One turn of the while loop: pop_front, then the for loop over the
\* anchors of the tile; None when the queue is empty.
SearchStep ==
    /\ bfs_pc = "running"
    /\ IF bfs_queue = <<>>
       THEN /\ bfs_pc' = "none"
            /\ UNCHANGED <<bfs_queue, bfs_visited, bfs_result>>
       ELSE LET cur == Head(bfs_queue)
                r == ScanAnchors(AnchorList(table, cur.tile), 1, cur.path,
                                 Tail(bfs_queue), bfs_visited)
            IN IF r.returned.found
               THEN /\ bfs_pc' = "some"
                    /\ bfs_result' = r.returned
                    /\ UNCHANGED <<bfs_queue, bfs_visited>>
               ELSE /\ bfs_queue' = r.queue
                    /\ bfs_visited' = r.visited
                    /\ UNCHANGED <<bfs_pc, bfs_result>>
    /\ UNCHANGED <<bfs_start, inverseVars, nonSearchVars>>

SearchNext ==
    \/ \E edge \in SearchEdges : SearchInsert(edge)
    \/ \E s \in SearchTiles : SearchStart(s)
    \/ SearchStep

\* The thread running the search is scheduled.
SearchSpec == Init /\ [][SearchNext]_allVars /\ WF_allVars(SearchStep)

\* ================================================================ properties
RECURSIVE Flatten(_)
\* The points of the batches, concatenated in dispatch order.
Flatten(bs) == IF bs = <<>> THEN <<>> ELSE Head(bs).points \o Flatten(Tail(bs))

DispatchedPoints == Flatten(dispatched)
SeqToSet(s) == {s[i] : i \in 1..Len(s)}
ChannelPoints == UNION {SeqToSet(chan[i].points) : i \in 1..Len(chan)}
BatchesVia(v) == {i \in 1..Len(dispatched) : dispatched[i].via = v}
InSendBatch == pc \in {"request", "backoff", "returned"}
LastResponse == responses[Len(responses)]
\* A failure send_batch retries: an Ok answer that is not 200, an error
\* status other than 401, or a transport error.
Retryable(r) == r /= 200 /\ r /= 401

\* C1: once the sender thread has exited, every point handed to
\* send_point/send_points before the drop is in some batch that was handed
\* to send_batch.
C1_NoPointLostAtShutdown ==
    pc = "done" => \A p \in 1..nenq : p \in SeqToSet(DispatchedPoints)

C1_Witness ==
    /\ pc = "done"
    /\ nenq = MaxPoints
    /\ Len(dispatched) >= 2
    /\ dispatched[Len(dispatched)].via = "shutdown"

\* C2: the batches, concatenated in dispatch order, are the points in
\* enqueue order: always the first points enqueued, none swapped.
C2_OrderPreserved ==
    /\ Len(DispatchedPoints) <= nenq
    /\ DispatchedPoints = Range(0, Len(DispatchedPoints))

C2_Witness ==
    /\ ncalls = 2
    /\ Len(dispatched) >= 2
    /\ Len(dispatched[1].points) >= 2
    /\ Len(DispatchedPoints) = nenq
    /\ nenq >= BatchSize

\* C3: send_batch issues at most 3 requests for a batch; after 3 retryable
\* failures it returns with the batch dropped, and no dispatched point is
\* ever back in the channel or (while the thread runs on) in the buffer.
C3_BoundedRetriesNoRequeue ==
    /\ Len(responses) <= 3
    /\ (Len(responses) = 3 /\ \A i \in 1..3 : Retryable(responses[i]))
          => (pc = "returned" /\ outcome = "failed")
    /\ SeqToSet(DispatchedPoints) \cap ChannelPoints = {}
    /\ \A i \in 1..Len(dispatched) :
          dispatched[i].via /= "shutdown"
             => SeqToSet(dispatched[i].points) \cap SeqToSet(pending) = {}

C3_Witness ==
    /\ pc = "returned"
    /\ outcome = "failed"
    /\ Len(responses) = 3
    /\ ret = "batch_loop"
    /\ pending /= <<>>
    /\ chan /= <<>>

\* C4: a 401 answer is the last request of its batch: send_batch returns at
\* once with the unauthorized outcome, with no sleep after it; a 401 on the
\* first attempt means exactly 1 request and no sleep.
C4_UnauthorizedEndsBatch ==
    \A i \in 1..Len(responses) :
        responses[i] = 401
           => /\ i = Len(responses)
              /\ pc = "returned"
              /\ outcome = "unauthorized"
              /\ Len(sleeps) = i - 1

C4_Witness ==
    /\ Len(responses) = 2
    /\ responses[2] = 401
    /\ pc = "returned"

\* C5 as stated: any answer with a status in 200..299 ends the delivery of
\* the batch successfully.
C5_Any2xxSucceeds ==
    (InSendBatch /\ responses /= <<>> /\ LastResponse \in 200..299)
       => (pc = "returned" /\ outcome = "ok")

\* C5 amended: status 200 exactly ends the delivery successfully with no
\* further attempt; every other 2xx status is handled as a retryable
\* failure (backoff and retry, failed after the third).
C5_Only200Succeeds ==
    (InSendBatch /\ responses /= <<>>)
       => /\ LastResponse = 200
             => (pc = "returned" /\ outcome = "ok"
                 /\ Len(sleeps) = Len(responses) - 1)
          /\ LastResponse \in 201..299
             => /\ outcome /= "ok"
                /\ Len(responses) < 3 => (pc \in {"backoff", "request"}
                                          /\ Len(sleeps) = Len(responses))
                /\ Len(responses) = 3 => (pc = "returned" /\ outcome = "failed")

C5_Witness ==
    /\ Len(responses) = 2
    /\ responses[1] = 204
    /\ responses[2] = 200
    /\ pc = "returned"
    /\ outcome = "ok"

\* C6: two answers that are neither 200 nor 401 followed by a 200 give a
\* successful delivery with exactly 3 requests and exactly 2 sleeps, of 100 ms
\* and then 200 ms.
C6_TwoFailuresThenSuccess ==
    (/\ Len(responses) = 3
     /\ responses[1] \in Statuses \ {200, 401}
     /\ responses[2] \in Statuses \ {200, 401}
     /\ responses[3] = 200)
       => /\ pc = "returned"
          /\ outcome = "ok"
          /\ sleeps = <<100, 200>>

C6_Witness ==
    /\ responses = <<500, 204, 200>>
    /\ pc = "returned"
    /\ outcome = "ok"

\* C7 as stated: with at least one and fewer than 10 points enqueued before
\* the drop, the thread has dispatched exactly one batch, holding all points.
C7_ExactlyOneBatch ==
    (pc = "done" /\ nenq >= 1 /\ nenq < 10)
       => /\ Len(dispatched) = 1
          /\ dispatched[1].points = Range(0, nenq)

\* C7 amended: with at least one and fewer than 10 points enqueued before the
\* drop, the batches concatenated are all the points in enqueue order, none of
\* them is a full batch, there is at least one batch and at most one per
\* send_points call, and exactly one when no 50 ms wait expired on an empty
\* channel before Shutdown was received.
C7_OneBatchUnlessTimeout ==
    (pc = "done" /\ nenq >= 1 /\ nenq < 10)
       => /\ DispatchedPoints = Range(0, nenq)
          /\ BatchesVia("full") = {}
          /\ Len(dispatched) >= 1
          /\ Len(dispatched) <= ncalls
          /\ BatchesVia("timeout") = {} => Len(dispatched) = 1

C7_Witness ==
    /\ pc = "done"
    /\ nenq = 9
    /\ ncalls = 2
    /\ Len(dispatched) = 2
    /\ dispatched[1].via = "timeout"
    /\ dispatched[2].via = "shutdown"

\* C8: while the handle is live, send_point can be taken in every state of
\* the sender thread, and no step of the sender thread changes the handle
\* (nothing is reported back to the producer).
C8_ProducerNeverBlocked ==
    /\ [](handle = "live" /\ ncalls < MaxCalls /\ nenq < MaxPoints
             => ENABLED SendPoints(1))
    /\ [][pc' /= pc => handle' = handle]_vars

C8_Witness ==
    /\ pc = "backoff"
    /\ handle = "live"
    /\ ncalls = 1
    /\ nenq < MaxPoints
    /\ ENABLED SendPoints(1)

\* Every point enqueued so far is in a dispatched batch.
AllDispatched == \A p \in 1..nenq : p \in SeqToSet(DispatchedPoints)

\* C9: every enqueued point is eventually dispatched, with or without a
\* shutdown, and when the 50 ms wait ends on an empty channel the thread
\* dispatches the whole buffer as one batch and the buffer becomes empty.
\* (A dispatched point stays dispatched and the producer's calls are finite,
\* so "p enqueued leads to p dispatched, for every p" is: again and again
\* everything enqueued so far has been dispatched.)
C9_EventuallyDispatched ==
    /\ []<>AllDispatched
    /\ [][(pc = "wait_recv" /\ pc' /= pc /\ chan = <<>> /\ handle = "live")
             => /\ pending /= <<>> /\ Len(pending) < 10
                /\ dispatched' = Append(dispatched,
                                        [points |-> pending, via |-> "timeout"])
                /\ pending' = <<>>]_vars

C9_Witness ==
    /\ handle = "live"
    /\ pc = "request"
    /\ pending = <<>>
    /\ dispatched /= <<>>
    /\ dispatched[Len(dispatched)].via = "timeout"
    /\ Len(DispatchedPoints) = nenq

\* C10: every batch handed to send_batch holds at most 10 points.
C10_BatchAtMostTen ==
    \A i \in 1..Len(dispatched) : Len(dispatched[i].points) <= 10

\* C11: is_configured returns true exactly when the backend URL and the push
\* key are both non-empty, and a call changes nothing but the value returned.
C11_IsConfiguredIffBothSet ==
    /\ [](configured /= "none"
            => (configured = "true" <=> (backend_url /= <<>> /\ push_key /= <<>>)))
    /\ [][UNCHANGED <<backend_url, push_key, vars, engineVars>>]_allVars

C11_Witness ==
    /\ configured = "false"
    /\ backend_url /= <<>>
    /\ push_key = <<>>

\* ---------------------------------------------------- coordinate transformer
\* The id 0xWWXXYY00 of a tile, written out.
TileId(t) == t[1] * 16777216 + t[2] * 65536 + t[3] * 256

\* The tile the pending query is about.
Queried(t) == query /= <<>> /\ query.map_id = TileId(t)

\* The global position reached from p through the single anchor a.
DirectVia(p, a) ==
    << p[1] - a.src_pos[1] + a.dst_pos[1] + a.dst_grid_x * 256,
       p[2] - a.src_pos[2] + a.dst_pos[2],
       p[3] - a.src_pos[3] + a.dst_pos[3] + a.dst_grid_z * 256 >>

\* The indices of the anchors of a list that lead into an area.
Into(list, area) == {i \in 1..Len(list) : list[i].dst_area_no = area}

\* The area a direct anchor of the list is taken from: 60 before 61.
ChosenArea(list) == IF Into(list, 60) /= {} THEN 60 ELSE 61

C13_Area60AnchorPreferred ==
    \A t \in LocalTiles :
        Queried(t) =>
            LET list == AnchorList(anchors, t)
            IN /\ Into(list, 60) /= {} =>
                      /\ result.ok
                      /\ result.area = 60
                      /\ \E i \in Into(list, 60) :
                             result.pos = DirectVia(query.p, list[i])
               /\ (Into(list, 60) = {} /\ Into(list, 61) /= {}) =>
                      /\ result.ok
                      /\ result.area = 61
                      /\ \E i \in Into(list, 61) :
                             result.pos = DirectVia(query.p, list[i])

C13_Witness ==
    \E t \in LocalTiles :
        /\ Queried(t)
        /\ Len(AnchorList(anchors, t)) >= 2
        /\ anchors[t][1].dst_area_no = 61
        /\ anchors[t][2].dst_area_no = 60
        /\ result.ok
        /\ result.area = 60

\* C14: the result through a direct anchor a is
\* (p.x - src.x + dst.x + dst_grid_x*256, p.y - src.y + dst.y,
\*  p.z - src.z + dst.z + dst_grid_z*256) in the frame a.dst_area_no, where a
\* is the first anchor of the chosen area in the list.
C14_FirstAnchorFormula ==
    \A t \in LocalTiles :
        LET list == AnchorList(anchors, t)
            into == Into(list, ChosenArea(list))
        IN (Queried(t) /\ into /= {}) =>
              LET first == CHOOSE i \in into : \A j \in into : i <= j
              IN /\ result.ok
                 /\ result.pos = DirectVia(query.p, list[first])
                 /\ result.area = list[first].dst_area_no

C14_Witness ==
    \E t \in LocalTiles :
        /\ Queried(t)
        /\ Len(AnchorList(anchors, t)) >= 2
        /\ anchors[t][1].dst_area_no = 60
        /\ anchors[t][2].dst_area_no = 60
        /\ DirectVia(query.p, anchors[t][1]) /= DirectVia(query.p, anchors[t][2])
        /\ result.pos = DirectVia(query.p, anchors[t][1])

RECURSIVE SumOffsets(_, _)
\* Component k of the sum of dst_pos - src_pos over the steps of a path.
SumOffsets(steps, k) ==
    IF steps = <<>> THEN 0
    ELSE Head(steps).anchor.dst_pos[k] - Head(steps).anchor.src_pos[k]
            + SumOffsets(Tail(steps), k)

\* The table of the two-step example: m10_01_00 leads to m10_00_00 with
\* offset (10, 5, 10), m10_00_00 to m60_40_35 with offset (100, 50, 100).
ExampleTable ==
    (<<10, 1, 0>> :> << [src_pos |-> <<0, 0, 0>>, dst_area_no |-> 10,
                         dst_grid_x |-> 0, dst_grid_z |-> 0,
                         dst_pos |-> <<10, 5, 10>>] >>)
    @@ (<<10, 0, 0>> :> << [src_pos |-> <<0, 0, 0>>, dst_area_no |-> 60,
                            dst_grid_x |-> 40, dst_grid_z |-> 35,
                            dst_pos |-> <<100, 50, 100>>] >>)

\* C15: through a precomputed path the result is the point plus the sum of
\* the offsets dst_pos - src_pos of its steps plus (GX*256, 0, GZ*256), in
\* the frame A, where (A, GX, GZ) is the final global tile of the path; the
\* local point (50, 20, 30) of the example table comes out at
\* (160 + 40*256, 75, 140 + 35*256).
C15_PathSumFormula ==
    \A t \in LocalTiles :
        LET list == AnchorList(anchors, t)
        IN (/\ Queried(t)
            /\ Into(list, 60) = {}
            /\ Into(list, 61) = {}
            /\ t \in DOMAIN paths) =>
              LET path == paths[t]
                  final == path.final_global_tile
              IN /\ result.ok
                 /\ result.pos =
                      << query.p[1] + SumOffsets(path.steps, 1) + final[2] * 256,
                         query.p[2] + SumOffsets(path.steps, 2),
                         query.p[3] + SumOffsets(path.steps, 3) + final[3] * 256 >>
                 /\ result.area = final[1]
                 /\ (anchors = ExampleTable /\ t = <<10, 1, 0>>
                        /\ query.p = <<50, 20, 30>>) =>
                       /\ result.pos = <<160 + 40 * 256, 75, 140 + 35 * 256>>
                       /\ result.area = 60

C15_Witness ==
    /\ anchors = ExampleTable
    /\ Queried(<<10, 1, 0>>)
    /\ query.p = <<50, 20, 30>>
    /\ Len(paths[<<10, 1, 0>>].steps) = 2
    /\ result.ok
    /\ result.pos = <<10400, 75, 9100>>

\* The tiles one anchor away from a tile.
Succ(g, t) ==
    {<<g[t][i].dst_area_no, g[t][i].dst_grid_x, g[t][i].dst_grid_z>> :
        i \in 1..Len(AnchorList(g, t))}

RECURSIVE WalkEnds(_, _, _)
\* The tiles at the end of a walk of exactly n anchors from a tile of S.
WalkEnds(g, S, n) ==
    IF n = 0 THEN S
    ELSE WalkEnds(g, UNION {Succ(g, t) : t \in S}, n - 1)

\* No shortest walk to a global tile is longer than the number of tiles.
HopLimit == Cardinality(Tiles) + 1

RECURSIVE FirstHit(_, _, _)
\* S holds the ends of the walks of n - 1 anchors: the least length, from n
\* on, of a walk ending on a tile of area 60 or 61; 0 when there is none.
FirstHit(g, S, n) ==
    LET next == UNION {Succ(g, t) : t \in S}
    IN IF \E u \in next : u[1] \in {60, 61} THEN n
       ELSE IF n >= HopLimit THEN 0
       ELSE FirstHit(g, next, n + 1)

\* The least number of anchors leading from a tile to a tile of area 60 or
\* 61; 0 when there is no such walk.
MinHops(g, t) == FirstHit(g, {t}, 1)

\* "mWW_XX_YY_DD" of the non-global tiles asked about.
TileName(t) ==
    CASE t = <<10, 0, 0>> -> "m10_00_00_00"
      [] t = <<10, 1, 0>> -> "m10_01_00_00"
      [] t = <<99, 0, 0>> -> "m99_00_00_00"

\* C16: on a non-global tile from which no tile of area 60 or 61 can be
\* reached along the anchors, a tile absent from the table included, the
\* transform returns the UnknownMap error with the formatted id of the tile
\* and no coordinates.
C16_UnreachableIsUnknownMap ==
    \A t \in LocalTiles \cup {AbsentTile} :
        (Queried(t) /\ MinHops(anchors, t) = 0) =>
            /\ ~result.ok
            /\ result.err = TileName(t)

C16_Witness ==
    /\ Queried(<<10, 0, 0>>)
    /\ <<10, 0, 0>> \in Succ(anchors, <<10, 1, 0>>)
    /\ <<10, 1, 0>> \in Succ(anchors, <<10, 0, 0>>)
    /\ <<60, 40, 35>> \in DOMAIN anchors
    /\ ~result.ok
    /\ result.err = "m10_00_00_00"

\* C17: from every start tile bfs_find_path_to_global finds a path exactly
\* when some walk along the anchors reaches a tile of area 60 or 61, and the
\* path it returns has the least number of steps of all such walks; so has
\* every path of the cache.
C17_BfsMinimalSteps ==
    /\ \A s \in Tiles \cup {AbsentTile} :
          LET r == BfsFindPathToGlobal(s, anchors)
              least == MinHops(anchors, s)
          IN /\ r.found <=> least /= 0
             /\ r.found => Len(r.steps) = least
    /\ epc = "ready" =>
          \A k \in DOMAIN paths : Len(paths[k].steps) = MinHops(anchors, k)

C17_Witness ==
    /\ epc = "ready"
    /\ \E k \in DOMAIN paths :
          /\ Len(paths[k].steps) = 2
          /\ \E u \in WalkEnds(anchors, {k}, 3) : u[1] \in {60, 61}

\* C18: after precompute_paths_to_global the keys of the cache are exactly the
\* keys of the anchor table whose area is neither 60 nor 61, whose list has
\* no anchor into area 60 or 61 and from which a global tile can be reached.
C18_CacheKeySet ==
    epc = "ready" =>
        DOMAIN paths =
            {k \in DOMAIN anchors :
                /\ k[1] \notin {60, 61}
                /\ Into(anchors[k], 60) = {}
                /\ Into(anchors[k], 61) = {}
                /\ MinHops(anchors, k) /= 0}

C18_Witness ==
    /\ epc = "ready"
    /\ DOMAIN paths /= {}
    /\ \E k \in DOMAIN anchors : k[1] = 60
    /\ \E k \in DOMAIN anchors : k[1] = 10 /\ Into(anchors[k], 61) /= {}

\* C19: every precomputed path has at least one step, and its
\* final_global_tile is a tile of area 60 or 61 and is the destination of
\* its last step.
C19_PathEndsOnGlobalTile ==
    epc = "ready" =>
        \A k \in DOMAIN paths :
            LET steps == paths[k].steps
                final == paths[k].final_global_tile
            IN /\ Len(steps) >= 1
               /\ final[1] \in {60, 61}
               /\ final = << steps[Len(steps)].anchor.dst_area_no,
                             steps[Len(steps)].anchor.dst_grid_x,
                             steps[Len(steps)].anchor.dst_grid_z >>

C19_Witness ==
    /\ epc = "ready"
    /\ \E k \in DOMAIN paths :
          /\ paths[k].final_global_tile = <<61, 10, 15>>
          /\ Len(paths[k].steps) = 2

\* The tiles a path goes through: its start tile, then the destination of
\* each step.
TilesAlong(k, steps) ==
    <<k>> \o [i \in 1..Len(steps) |->
                << steps[i].anchor.dst_area_no, steps[i].anchor.dst_grid_x,
                   steps[i].anchor.dst_grid_z >>]

\* C20: no precomputed path goes through a tile twice, whatever cycles,
\* self-loops and back-edges the anchor table has.
C20_PathAcyclic ==
    epc = "ready" =>
        \A k \in DOMAIN paths :
            LET along == TilesAlong(k, paths[k].steps)
            IN \A i, j \in 1..Len(along) : along[i] = along[j] => i = j

C20_Witness ==
    /\ epc = "ready"
    /\ \E k \in DOMAIN paths :
          /\ k \in Succ(anchors, k)
          /\ \E u \in Succ(anchors, k) : u /= k /\ k \in Succ(anchors, u)

\* ------------------------------------------------------- inverse anchors
\* Two positions that are the same value, or within 0.001 of each other on
\* all three coordinates.
SamePosition(a, b) ==
    \/ a = b
    \/ \A i \in 1..3 :
          /\ a[i] /= NotANumber /\ b[i] /= NotANumber
          /\ (a[i] - b[i]) * 1000 < 1 /\ (b[i] - a[i]) * 1000 < 1

\* Within 0.001 on all three coordinates.
WithinTolerance(a, b) ==
    \A i \in 1..3 :
        /\ a[i] /= NotANumber /\ b[i] /= NotANumber
        /\ (a[i] - b[i]) * 1000 < 1 /\ (b[i] - a[i]) * 1000 < 1

\* The anchors of table g, each with the tile it is keyed at.
KeyedAnchors(g) ==
    UNION {{[at |-> k, a |-> g[k][i]] : i \in 1..Len(g[k])} : k \in DOMAIN g}

\* The indices of the list of g at the destination of the keyed anchor e
\* that hold an inverse of e, by the comparison same.
InversesIn(g, e, same(_, _)) ==
    LET D == <<e.a.dst_area_no, e.a.dst_grid_x, e.a.dst_grid_z>>
        list == IF D \in DOMAIN g THEN g[D] ELSE <<>>
    IN {j \in 1..Len(list) :
          /\ <<list[j].dst_area_no, list[j].dst_grid_x, list[j].dst_grid_z>> = e.at
          /\ same(list[j].src_pos, e.a.dst_pos)
          /\ same(list[j].dst_pos, e.a.src_pos)}

C22_NoDuplicateInverse ==
    passes = 1 =>
        /\ \A e \in KeyedAnchors(before) :
              InversesIn(before, e, WithinTolerance) /= {} =>
                 InversesIn(table, e, WithinTolerance)
                    = InversesIn(before, e, WithinTolerance)
        /\ (\A e \in KeyedAnchors(before) :
                InversesIn(before, e, WithinTolerance) /= {}) =>
              /\ DOMAIN table = DOMAIN before
              /\ \A k \in DOMAIN before : Len(table[k]) = Len(before[k])

C22_Witness ==
    /\ passes = 1
    /\ Cardinality(DOMAIN before) = 2
    /\ AnchorCount(before) = 3
    /\ \A e \in KeyedAnchors(before) : InversesIn(before, e, WithinTolerance) /= {}
    /\ table = before

\* Every coordinate of every anchor of the table is a number.
AllFinite(g) ==
    \A e \in KeyedAnchors(g) :
        \A i \in 1..3 : e.a.src_pos[i] /= NotANumber /\ e.a.dst_pos[i] /= NotANumber

\* C23 as stated: a second add_inverse_anchors adds no anchor to any list,
\* whatever the table and the iteration order.
C23_SecondPassAddsNothing ==
    passes = 2 => table = before

\* C23: on a table whose coordinates are all numbers, a second
\* add_inverse_anchors adds no anchor to any list, whatever the iteration
\* order of either pass.
C23_SecondPassAddsNothingFinite ==
    (passes = 2 /\ AllFinite(before)) => table = before

C23_Witness ==
    /\ passes = 2
    /\ AllFinite(before)
    /\ Cardinality(KeyedAnchors(table)) = 2 * MaxRows
    /\ table = before

\* ---------------------------------------------------------------- map ids
\* C24: the four bytes parse_map_id returns are bytes and recombine to the
\* id, b0<<24 | b1<<16 | b2<<8 | b3; the id area<<24 | gridX<<16 | gridZ<<8
\* parses into (area, gridX, gridZ, 0).
C24_ParsePackLossless ==
    bytes /= <<>> =>
        /\ \A i \in 1..4 : bytes[i] \in 0..255
        /\ bytes[1] * 16777216 + bytes[2] * 65536 + bytes[3] * 256 + bytes[4] = mid
        /\ \A a \in TopByteSamples, x \in ByteSamples, z \in ByteSamples :
              mid = a * 16777216 + x * 65536 + z * 256 => bytes = <<a, x, z, 0>>

C24_Witness ==
    /\ mid = 1009263360
    /\ bytes = <<60, 40, 35, 0>>

\* C25: a data row with fewer fields than the loader reads (columns up to
\* 18), or with a read field that does not parse, is skipped and the load
\* goes on.
C25_MalformedRowSkipped ==
    (/\ row /= <<>>
     /\ ~row.header
     /\ ~row.blank
     /\ \/ row.nfields <= ReadColumns[Len(ReadColumns)]
        \/ row.bad \in SeqToSet(ReadColumns))
    => (row.outcome = "skipped" /\ epc /= "panicked")

\* C26: a call of transform leaves the anchor graph and the path cache of
\* the built engine as they are, and two calls with the same map id and
\* point on one engine return the same result.
C26_TransformIsPure ==
    /\ [](\A i, j \in 1..Len(answers) :
            (answers[i].map_id = answers[j].map_id /\ answers[i].p = answers[j].p)
            => answers[i].result = answers[j].result)
    /\ [][epc = "ready" => UNCHANGED <<anchors, paths>>]_allVars

C26_Witness ==
    /\ Len(answers) = MaxCalls + 1
    /\ answers[1].map_id = answers[MaxCalls + 1].map_id
    /\ answers[1].result.ok
    /\ answers[2].result /= answers[1].result
    /\ paths /= <<>>

\* C27: two engines loaded from the same records, each with its own map
\* iteration order while the inverse anchors are added, give the same
\* result for the same map id and point.
C27_IterationOrderIrrelevant ==
    (epc = "ready" /\ query /= <<>>) => result = result2

\* Whether the transformer of the tracker resolves the map id.
Resolves(map_id) ==
    LocalToWorldWithGlobalMap(TrackerAnchors, TrackerPaths, map_id, PlayerPos).ok

\* C28: a point whose map id the transformer does not resolve is recorded
\* and streamed all the same, its global coordinates equal to its local
\* ones: whenever record_position or stream_position gets past its position
\* read, a point is appended.
C28_FallbackToLocal ==
    /\ [](\A pt \in SeqToSet(route) \cup SeqToSet(streamed) :
            ~Resolves(pt.map_id) => pt.global = pt.local)
    /\ [][/\ last_record_time' /= last_record_time => Len(route') = Len(route) + 1
          /\ last_stream_time' /= last_stream_time => Len(streamed') = Len(streamed) + 1
         ]_allVars

C28_Witness ==
    /\ \E i \in 1..Len(route) : ~Resolves(route[i].map_id) /\ route[i].global = PlayerPos
    /\ \E i \in 1..Len(streamed) :
          ~Resolves(streamed[i].map_id) /\ streamed[i].global = PlayerPos

\* C29: the timestamps of the streamed points never decrease, in the order
\* the points were produced.
C29_TimestampsMonotonic ==
    \A i, j \in 1..Len(streamed) :
        i < j => streamed[i].timestamp_ms <= streamed[j].timestamp_ms

\* C29, amended: the timestamps never decrease among the points measured
\* from the same session start, and a later point is never measured from an
\* earlier start.
C29_TimestampsMonotonicPerSession ==
    \A i, j \in 1..Len(streamed) :
        i < j =>
            /\ streamed[i].origin <= streamed[j].origin
            /\ streamed[i].origin = streamed[j].origin
                  => streamed[i].timestamp_ms <= streamed[j].timestamp_ms

C29_Witness ==
    /\ Len(streamed) = MaxCalls
    /\ streamed[1].origin = streamed[MaxCalls].origin
    /\ streamed[1].timestamp_ms < streamed[MaxCalls].timestamp_ms
    /\ ~is_streaming

\* C30: the frame label of a converted icon follows from its area number
\* alone: "m60" for area 60, "m61" for area 61 and for areas 20..29, "m60"
\* for any other area, whatever frame the engine resolved the point to.
C30_LabelFromAreaOnly ==
    \A i \in 1..Len(icons) :
        LET a == icons[i].area_no
        IN icons[i].map_id =
              IF a = 61 \/ a \in 20..29 THEN "m61" ELSE "m60"

C30_Witness ==
    /\ \E i \in 1..Len(icons) :
          icons[i].area_no = 20 /\ icons[i].map_id = "m61" /\ icons[i].resolved = 60
    /\ \E i \in 1..Len(icons) :
          icons[i].area_no = 10 /\ icons[i].map_id = "m60" /\ icons[i].resolved = 61
    /\ \E i \in 1..Len(icons) : icons[i].area_no = 29 /\ icons[i].map_id = "m61"

RECURSIVE SumCounts(_, _)
\* The sum of the counts of a frequency table.
SumCounts(m, keys) ==
    IF keys = {} THEN 0
    ELSE LET k == CHOOSE k \in keys : TRUE
         IN m[k] + SumCounts(m, keys \ {k})

\* The icons of the export read so far that are not on the denylist.
Eligible == {i \in 1..Len(exported) : exported[i].icon_id /= 83}

\* C31: converted_count + failed_count is the number of icons read whose
\* icon id is not on the denylist, the failure counts per tile sum to
\* failed_count, and a denylisted icon is neither put out nor counted.
C31_CountsAddUp ==
    /\ converted_count + failed_count = Cardinality(Eligible)
    /\ SumCounts(failed_maps, DOMAIN failed_maps) = failed_count
    /\ Len(icons) = converted_count
    /\ \A i \in 1..Len(icons) : icons[i].icon_id /= 83

C31_Witness ==
    /\ Len(exported) = MaxCalls + 1
    /\ Cardinality(Eligible) = MaxCalls
    /\ converted_count = 1
    /\ failed_count = 1
    /\ failed_maps = ("m99_00_00_00" :> 1)

\* C32: in the loop, a buffer of at least 10 points is cut into batches of
\* exactly its 10 oldest points, one after another, and the worker reaches
\* the 50 ms wait or the blocking receive only with fewer than 10 points.
C32_FullBatchesBeforeWaiting ==
    /\ [](pc \in {"sleep", "wait_recv", "recv_timeout"} => Len(pending) < 10)
    /\ [][(pc = "batch_loop" /\ pc' /= pc /\ Len(pending) >= 10) =>
             /\ dispatched' = Append(dispatched,
                                     [points |-> SubSeq(pending, 1, 10), via |-> "full"])
             /\ pending' = SubSeq(pending, 11, Len(pending))
             /\ pc' = "request"
             /\ ret' = "batch_loop"]_vars

C32_Witness ==
    /\ pc = "sleep"
    /\ Len(dispatched) = 2
    /\ dispatched[1] = [points |-> <<1, 2, 3, 4, 5, 6, 7, 8, 9, 10>>, via |-> "full"]
    /\ dispatched[2].via = "full"
    /\ dispatched[2].points = <<11, 12, 13, 14, 15, 16, 17, 18, 19, 20>>
    /\ pending = <<21>>

\* The tiles of a graph: its keys and the destinations of its anchors.
GraphTiles(g) == DOMAIN g \cup UNION {Succ(g, k) : k \in DOMAIN g}

\* C33: the search ends on every graph, cycles and self-loops included (no
\* path queued is as long as the number of tiles seen, and a running search
\* leads to a return); when no tile of area 60 or 61 can be reached from
\* the start it returns no path, and the cache gets no entry for the tile.
C33_SearchTerminates ==
    /\ [](bfs_pc = "running" =>
            /\ bfs_visited \subseteq GraphTiles(table) \cup {bfs_start}
            /\ \A i \in 1..Len(bfs_queue) :
                  /\ bfs_queue[i].tile \in bfs_visited
                  /\ Len(bfs_queue[i].path) < Cardinality(bfs_visited))
    /\ [](bfs_pc \in {"some", "none"} =>
            /\ (MinHops(table, bfs_start) = 0) <=> (bfs_pc = "none")
            /\ bfs_pc = "none" => bfs_start \notin DOMAIN PrecomputePathsToGlobal(table))
    /\ (bfs_pc = "running") ~> (bfs_pc \in {"some", "none"})

C33_Witness ==
    /\ bfs_pc = "none"
    /\ bfs_start = <<10, 0, 0>>
    /\ <<10, 0, 0>> \in Succ(table, <<10, 0, 0>>)
    /\ <<10, 1, 0>> \in Succ(table, <<10, 0, 0>>)
    /\ <<10, 0, 0>> \in Succ(table, <<10, 1, 0>>)
    /\ bfs_visited = {<<10, 0, 0>>, <<10, 1, 0>>}

\* The sender thread has taken the Shutdown message off the channel.
ShutdownReceived ==
    /\ handle = "dropped"
    /\ \A i \in 1..Len(chan) : chan[i].type /= "Shutdown"

\* C34: after the drop of the handle the sender thread ends (the handle
\* stays dropped and a finished thread stays finished, so this is: again and
\* again the handle is live or the thread is done); from the moment
\* it has received Shutdown it is either done or inside the one flush that
\* leads to its exit, there is at most one such flush, it is the last batch,
\* and the channel is not read again.
C34_TerminatesAfterDrop ==
    /\ []<>(handle = "live" \/ pc = "done")
    /\ [](pc = "done" => ShutdownReceived)
    /\ [](ShutdownReceived =>
            /\ Cardinality(BatchesVia("shutdown")) <= 1
            /\ BatchesVia("shutdown") \subseteq {Len(dispatched)}
            /\ \/ pc = "done"
               \/ /\ pc \in {"request", "backoff", "returned"}
                  /\ ret = "done"
                  /\ BatchesVia("shutdown") = {Len(dispatched)})
    /\ [][ShutdownReceived => (chan' = chan /\ Len(dispatched') = Len(dispatched))]_vars

C34_Witness ==
    /\ pc = "done"
    /\ chan = <<>>
    /\ Len(dispatched) = 2
    /\ dispatched[1].via = "timeout"
    /\ dispatched[2].via = "shutdown"
    /\ Len(dispatched[2].points) = 10

\* C35: the timestamp of a point stream_position produces is the time since
\* the recording start when recording is active, and the time since the
\* stream start otherwise.
C35_TimestampOrigin ==
    [][Len(streamed') = Len(streamed) + 1 =>
          streamed'[Len(streamed')].timestamp_ms =
              IF is_recording THEN now - start_time
              ELSE now - stream_start_time']_allVars

\* C36: a 401 ends only its own batch. When send_batch returns, whatever
\* the outcome, the thread goes on where it called it, with the buffer, the
\* channel and the batches so far untouched and nothing kept of the
\* outcome; every batch starts at attempt 0 with no response yet and gets
\* up to 3 requests; a refused batch stops the thread only when it was the
\* flush on Shutdown.
C36_UnauthorizedOnlyThisBatch ==
    /\ [][(pc = "returned" /\ pc' /= pc) =>
             /\ pc' = ret
             /\ attempt' = 0 /\ responses' = <<>> /\ sleeps' = <<>>
             /\ outcome' = "none"
             /\ UNCHANGED <<pending, chan, dispatched, handle>>]_vars
    /\ [][Len(dispatched') = Len(dispatched) + 1 =>
             /\ pc' = "request"
             /\ attempt' = 0 /\ responses' = <<>>
             /\ outcome' = "none"]_vars
    /\ [](pc = "request" => (Len(responses) = attempt /\ attempt < 3))
    /\ [](outcome = "unauthorized" =>
            /\ pc = "returned"
            /\ ret \in {"batch_loop", "try_recv", "done"}
            /\ ret = "done" => dispatched[Len(dispatched)].via = "shutdown")
    /\ [][(pc = "request" /\ pc' = "returned" /\ outcome' = "failed")
             => Len(responses') = 3]_vars

C36_Witness ==
    /\ pc = "returned"
    /\ outcome = "unauthorized"
    /\ responses = <<401>>
    /\ ret = "batch_loop"
    /\ handle = "live"
    /\ chan /= <<>>
    /\ chan[1].type = "SendPoints"

\* C37: on a built engine the transform of a point on a non-global tile
\* succeeds exactly when some walk along the anchors of the graph leads from
\* the tile to a tile of area 60 or 61.
C37_ResolvesWhenReachable ==
    \A t \in LocalTiles \cup {AbsentTile} :
        Queried(t) => (result.ok <=> MinHops(anchors, t) > 0)

C37_Witness ==
    /\ Queried(<<10, 0, 0>>)
    /\ result.ok
    /\ AnchorCount(anchors) = 4
    /\ Succ(anchors, <<10, 0, 0>>) = {<<10, 1, 0>>}
    /\ Succ(anchors, <<60, 40, 35>>) = {<<10, 1, 0>>}
    /\ Succ(anchors, <<10, 1, 0>>) = {<<10, 0, 0>>, <<60, 40, 35>>}
    /\ MinHops(anchors, <<10, 0, 0>>) = 2

\* C38: every precomputed path is a connected chain in the anchor table:
\* the anchor of step i is an element of the list keyed at the tile reached
\* after i - 1 steps (the cached tile itself for the first step), and the
\* last step is the only one whose destination area is 60 or 61.
C38_PathIsConnectedChain ==
    epc = "ready" =>
        \A k \in DOMAIN paths :
            LET steps == paths[k].steps
                along == TilesAlong(k, steps)
            IN \A i \in 1..Len(steps) :
                  /\ along[i] \in DOMAIN anchors
                  /\ steps[i].anchor \in SeqToSet(anchors[along[i]])
                  /\ (steps[i].anchor.dst_area_no \in {60, 61}) <=> (i = Len(steps))

C38_Witness ==
    /\ epc = "ready"
    /\ \E k \in DOMAIN paths :
          /\ Len(paths[k].steps) = 2
          /\ Len(anchors[k]) = 2
          /\ paths[k].steps[1].anchor /= paths[k].steps[2].anchor
          /\ paths[k].steps[2].anchor \notin SeqToSet(anchors[k])

\* C39: no empty batch is ever dispatched: no SendPoints message in the
\* channel is empty, every batch handed to send_batch has at least one
\* point, and so has the batch send_batch is working on.
C39_NoEmptyBatch ==
    /\ \A i \in 1..Len(chan) :
          chan[i].type = "SendPoints" => Len(chan[i].points) >= 1
    /\ \A i \in 1..Len(dispatched) : Len(dispatched[i].points) >= 1
    /\ InSendBatch => Len(batch) >= 1

C39_Witness ==
    /\ handle = "live"
    /\ ncalls = 2
    /\ nenq = 1
    /\ chan = <<>>
    /\ Len(dispatched) = 1
    /\ dispatched[1].via = "timeout"
    /\ pc = "recv_timeout"

====
